---- MODULE Spec2Model ----
(***************************************************************************)
(* A model of FirmwareService.buildFlashFirmware, the build orchestration  *)
(* pipeline of the ExpressLRS Configurator API.                            *)
(*                                                                         *)
(* The service runs on a single-threaded event loop: code between two      *)
(* `await`s runs atomically, and other calls may run while a call is       *)
(* suspended in an `await`.  Every action below is one such segment of     *)
(* buildFlashFirmware: it resumes a call from the await named by its pc    *)
(* with the outcome of the awaited operation, and runs the code up to the  *)
(* next await or to the return.                                            *)
(*                                                                         *)
(* The other parts of the program have their own variables and their own   *)
(* specifications, each leaving the variables of the others alone:         *)
(* validateFirmwareVersionData (ValidateSpec), the form, the logs and the  *)
(* multicast DNS devices of ConfiguratorView (ViewSpec, LogSpec, DnsSpec), *)
(* DeviceService (DeviceSpec), the output callbacks of one caller          *)
(* (OutputSpec) and several FirmwareService objects (InstanceSpec).        *)
(***************************************************************************)
EXTENDS Naturals, Sequences, FiniteSets, TLC

(***************************************************************************)
(* Bounds of the model.                                                    *)
(***************************************************************************)
\* Number of call frames of buildFlashFirmware that can be alive at once.
MaxCalls == 2
\* Number of output chunks the backend hands to the output callbacks in one run.
MaxChunks == 1
\* Number of FirmwareService objects, and of callers of each.
MaxInstances == 2
MaxCallers == 2

Calls == 1..MaxCalls

(***************************************************************************)
(* Values of the request and of the environment.                           *)
(***************************************************************************)
\* JavaScript's undefined, for an optional field that is not set.
Undefined == "<undefined>"

JobTypes == {"Build", "BuildAndFlash"}
FirmwareSources == {"GitTag", "GitBranch", "GitCommit", "Local", "GitPullRequest"}
\* "Unsupported" stands for any value that is neither Manual nor UserInterface.
UserDefinesModes == {"Manual", "UserInterface", "Unsupported"}
Targets == {"TARGET_A"}

UserDefinesA ==
    << [type |-> "Boolean", key |-> "REGULATORY_DOMAIN_EU_868", enabled |-> TRUE, value |-> ""],
       [type |-> "Boolean", key |-> "NO_SYNC_ON_ARM", enabled |-> FALSE, value |-> ""],
       [type |-> "Text", key |-> "MY_BINDING_PHRASE", enabled |-> TRUE, value |-> "phrase"] >>
UserDefinesB ==
    << [type |-> "Boolean", key |-> "NO_SYNC_ON_ARM", enabled |-> FALSE, value |-> ""] >>
UserDefineLists == {UserDefinesA, UserDefinesB}

\* gitPullRequest: PullRequest | null.
PullRequest(headCommitHash) == [isNull |-> FALSE, headCommitHash |-> headCommitHash]
NullPullRequest == [isNull |-> TRUE, headCommitHash |-> ""]

\* The serial or network device the UI puts in the request (uploadPort).
SerialDevices == {"/dev/ttyUSB0"}

\* The requests the callers send: every job type, source variant and defines
\* mode; the source fields hold different values.  The list of defines
\* varies in UserInterface mode, the only mode that reads it.
ParamsSet ==
    {p \in [type : JobTypes,
            firmware : [source : FirmwareSources, gitTag : {"v1.0"}, gitBranch : {"master"},
                        gitCommit : {"abc123"}, localPath : {"/x"},
                        gitPullRequest : {PullRequest("f00d")}],
            target : Targets,
            userDefinesMode : UserDefinesModes,
            userDefines : UserDefineLists,
            userDefinesTxt : {"#manual"},
            serialDevice : SerialDevices] :
        p.userDefinesMode # "UserInterface" => p.userDefines = UserDefinesA}

ValidateCommitByTag(data) ==
    [threw |-> FALSE,
     errors |-> IF data.source = "GitCommit" /\ Len(data.gitTag) = 0
                THEN <<"Git commit hash is empty">> ELSE <<>>]

\* validateFirmwareVersionData: the errors of a source descriptor; the
\* default case of its switch throws.
ValidateFirmwareVersionData(data) ==
    LET Errors(ok, message) ==
            [threw |-> FALSE, errors |-> IF ok THEN <<>> ELSE <<message>>]
    IN  CASE data.source = "Local" ->
               Errors(Len(data.localPath) > 0, "Local path is empty")
          [] data.source = "GitCommit" ->
               Errors(Len(data.gitCommit) > 0, "Git commit hash is empty")
          [] data.source = "GitBranch" ->
               Errors(Len(data.gitBranch) > 0, "Git branch is not selected")
          [] data.source = "GitTag" ->
               Errors(Len(data.gitTag) > 0, "Firmware release is not selected")
          [] data.source = "GitPullRequest" ->
               Errors(~data.gitPullRequest.isNull
                        /\ Len(data.gitPullRequest.headCommitHash) > 0,
                      "Firmware Pull Request is not selected")
          [] OTHER ->
               [threw |-> TRUE,
                errors |-> <<"unknown firmware data source: " \o data.source>>]

GitRepoUrl == "https://github.com/ExpressLRS/ExpressLRS"

\* What the environment can answer.
Stderrs == {"undefined reference"}
Stdouts == {"out"}
Exceptions == {"Error: boom", "Error: EACCES"}
CheckoutPaths == {"/firmwares/ExpressLRS"}
GitPaths == {"/usr/bin/git"}
Chunks == {"a", "b"}
PlatformioNotice ==
    "Failed to find Platformio on your computer. Trying to install it automatically..."

(***************************************************************************)
(* State.                                                                  *)
(*                                                                         *)
(* locked is the Mutex of the service.  pc, params, firmwarePath,          *)
(* userDefines, caught and result are the frame of each call: where it is  *)
(* suspended, its parameter, its locals, the exception of its catch block  *)
(* and the value it returned.  progress and logs are what has been         *)
(* published on the two PubSub topics and ops the operations invoked on    *)
(* the backend objects, each entry tagged with the call it comes from.     *)
(*                                                                         *)
(* progress, logs and ops are histories.  An entry is kept as long as the  *)
(* frame of its call is: the frame of a call that has returned is dropped, *)
(* with its entries, when the caller forgets the result or when the guard  *)
(* is next acquired.                                                       *)
(***************************************************************************)
VARIABLES locked, pc, params, firmwarePath, userDefines, caught, result,
          progress, logs, ops

\* validateFirmwareVersionData: the descriptor it is given and what it returns.
VARIABLES descriptor, validation

\* ConfiguratorView: the state of the component (useState), and the requests
\* it has sent to the backend (a history).
VARIABLES viewState, firmwareVersionData, firmwareVersionErrors, deviceTarget,
          deviceTargetErrors, deviceOptionsFormData, deviceOptionsValidationErrors,
          currentJobType, requests

\* ConfiguratorView, the build logs: the buffer of the EventsBatcher,
\* logsRef.current and the logs state (the text displayed).  logUpdates and
\* batched are histories, the chunks the log subscription has received and
\* the chunks handed to the onBatch callback since the view was mounted;
\* resetAt is the length of batched at the last reset.
VARIABLES eventsBatcher, logsRef, uiLogs, logUpdates, batched, resetAt

\* ConfiguratorView, the devices found by multicast DNS: the map of the
\* devices by name, the list of the devices to notify, and whether the result
\* of the query for the initial list has arrived.  dnsArrivals is a history:
\* the events and the initial list, in the order of arrival.
VARIABLES multicastDnsDevices, multicastDnsNewDevices, multicastDnsDevicesListData,
          dnsArrivals

\* ConfiguratorView, the progress of the build: progressNotificationsRef.current,
\* the progressNotifications state and the lastProgressNotification state.
\* progressUpdates is a history, the events the progress subscription has
\* received since the view was mounted; progressResetAt is its length at the
\* last reset.
VARIABLES progressNotificationsRef, progressNotifications, lastProgressNotification,
          progressUpdates, progressResetAt

\* ConfiguratorView, the build mutation: the loading flag of the mutation hook
\* (buildInProgress), and a history, every mutation sent: its state, its job
\* type, the view it was sent from and the currentJobType state of that view.
VARIABLES buildInProgress, mutations

\* ConfiguratorView, the device to flash through: the targets the backend has
\* listed, the serial and the Wi-Fi device selected, and which of the two the
\* selected target requires.
VARIABLES deviceTargets, serialDevice, wifiDevice, serialPortRequired,
          wifiDeviceRequired

\* DeviceService: the entries of devices.json (DeviceJSON.devices), and what
\* the constructor's loadDevices() gave: the devices field, or the exception.
VARIABLES deviceJSON, devices

\* Several FirmwareService objects: the Mutex of each, and where each caller
\* of each object is.
VARIABLES mutex, instanceCalls

serviceVars == <<locked, pc, params, firmwarePath, userDefines, caught, result,
                 progress, logs, ops>>
validatorVars == <<descriptor, validation>>
formVars == <<viewState, firmwareVersionData, firmwareVersionErrors, deviceTarget,
              deviceTargetErrors, deviceOptionsFormData,
              deviceOptionsValidationErrors, currentJobType, requests>>
logVars == <<eventsBatcher, logsRef, uiLogs, logUpdates, batched, resetAt>>
dnsVars == <<multicastDnsDevices, multicastDnsNewDevices, multicastDnsDevicesListData,
             dnsArrivals>>
noticeVars == <<progressNotificationsRef, progressNotifications,
                lastProgressNotification, progressUpdates, progressResetAt>>
mutationVars == <<buildInProgress, mutations>>
transportVars == <<deviceTargets, serialDevice, wifiDevice, serialPortRequired,
                   wifiDeviceRequired>>
viewVars == <<formVars, logVars, dnsVars, noticeVars, mutationVars, transportVars>>
deviceVars == <<deviceJSON, devices>>
instanceVars == <<mutex, instanceCalls>>

vars == <<serviceVars, validatorVars, viewVars, deviceVars, instanceVars>>

\* The variables each part of the program leaves alone.
outsideService == <<validatorVars, viewVars, deviceVars, instanceVars>>
outsideValidator == <<serviceVars, viewVars, deviceVars, instanceVars>>
outsideView == <<serviceVars, validatorVars, deviceVars, instanceVars, dnsVars>>
outsideDns == <<serviceVars, validatorVars, deviceVars, instanceVars, formVars, logVars,
                noticeVars, mutationVars, transportVars>>
outsideDevices == <<serviceVars, validatorVars, viewVars, instanceVars>>
outsideInstances == <<serviceVars, validatorVars, viewVars, deviceVars>>

frames == <<pc, params, firmwarePath, userDefines, caught, result>>

NoParams == [type |-> Undefined]
NoResult == [success |-> FALSE, message |-> Undefined, errorType |-> Undefined,
             firmwareBinPath |-> Undefined]

Suspended == {"progressVerifying", "checkPython", "checkCore", "logInstallNotice",
              "install", "findGit", "progressDownloading", "checkout",
              "progressUserDefines", "compatCheck", "platformioState",
              "progressBuilding", "compile", "progressFlashing", "flash"}

ServiceInit ==
    /\ locked = FALSE
    /\ pc = [c \in Calls |-> "idle"]
    /\ params = [c \in Calls |-> NoParams]
    /\ firmwarePath = [c \in Calls |-> ""]
    /\ userDefines = [c \in Calls |-> ""]
    /\ caught = [c \in Calls |-> Undefined]
    /\ result = [c \in Calls |-> NoResult]
    /\ progress = <<>>
    /\ logs = <<>>
    /\ ops = <<>>

\* new FirmwareVersionDataInput(): the descriptor before the user selects one.
NewFirmwareVersionDataInput ==
    [source |-> "GitBranch", gitTag |-> "", gitBranch |-> "", gitCommit |-> "",
     localPath |-> "", gitPullRequest |-> NullPullRequest]

\* validateFirmwareVersionData has not been applied.
NotValidated == [done |-> FALSE, threw |-> FALSE, errors |-> <<>>]

ValidatorIdle ==
    /\ descriptor = NewFirmwareVersionDataInput
    /\ validation = NotValidated

\* JavaScript's null.
Null == "<null>"

\* useState<FirmwareVersionDataInput | null>(null)
NoFirmwareVersionData ==
    [source |-> Null, gitTag |-> "", gitBranch |-> "", gitCommit |-> "",
     localPath |-> "", gitPullRequest |-> NullPullRequest]

\* The device options form before the options of a target are loaded.
EmptyDeviceOptionsFormData ==
    [userDefinesTxt |-> "", userDefinesMode |-> "UserInterface",
     userDefineOptions |-> <<>>]

\* ConfiguratorView after it is mounted: the initial values of its state.  A
\* list of errors that is null or empty is <<>>.
FormInit ==
    /\ viewState = "CONFIGURATION"
    /\ firmwareVersionData = NoFirmwareVersionData
    /\ firmwareVersionErrors = <<>>
    /\ deviceTarget = Null
    /\ deviceTargetErrors = <<>>
    /\ deviceOptionsFormData = EmptyDeviceOptionsFormData
    /\ deviceOptionsValidationErrors = <<>>
    /\ currentJobType = "Build"
    /\ requests = <<>>

\* No log update has been received.
LogsInit ==
    /\ eventsBatcher = <<>>
    /\ logsRef = <<>>
    /\ uiLogs = ""
    /\ logUpdates = <<>>
    /\ batched = <<>>
    /\ resetAt = 0

\* The names of the devices multicast DNS finds.
DnsNames == {"elrs_rx", "elrs_tx"}

\* No entry for a name.
NoDnsInformation == [name |-> Undefined, ip |-> Undefined, target |-> Undefined]

\* useState({}): no device, no result of the query for the initial list.
DnsInit ==
    /\ multicastDnsDevices = [n \in DnsNames |-> NoDnsInformation]
    /\ multicastDnsNewDevices = <<>>
    /\ multicastDnsDevicesListData = FALSE
    /\ dnsArrivals = <<>>

\* useState<BuildProgressNotification | null>(null)
NoProgressNotification == [type |-> Null, step |-> Null]

\* No progress event has been received.
NoticeInit ==
    /\ progressNotificationsRef = <<>>
    /\ progressNotifications = <<>>
    /\ lastProgressNotification = NoProgressNotification
    /\ progressUpdates = <<>>
    /\ progressResetAt = 0

\* useBuildFlashFirmwareMutation() before the mutation is called.
MutationInit ==
    /\ buildInProgress = FALSE
    /\ mutations = <<>>

\* useState<Device[] | null>(null)
NoDeviceTargets == [isNull |-> TRUE, devices |-> <<>>]

\* useState(null) for the targets and the devices, useState(false) for the
\* two requirements.
TransportInit ==
    /\ deviceTargets = NoDeviceTargets
    /\ serialDevice = Null
    /\ wifiDevice = Null
    /\ serialPortRequired = FALSE
    /\ wifiDeviceRequired = FALSE

ViewInit ==
    /\ FormInit
    /\ LogsInit
    /\ DnsInit
    /\ NoticeInit
    /\ MutationInit
    /\ TransportInit

\* DeviceService is not constructed: the catalog is not read.
NotLoaded == [done |-> FALSE, threw |-> FALSE, message |-> "", devices |-> <<>>]

DevicesIdle ==
    /\ deviceJSON = <<>>
    /\ devices = NotLoaded

\* new FirmwareService(...), for each object: this.mutex = new Mutex().
InstancesInit ==
    /\ mutex = [i \in 1..MaxInstances |-> FALSE]
    /\ instanceCalls = [i \in 1..MaxInstances |-> [k \in 1..MaxCallers |-> "idle"]]

Init ==
    /\ ServiceInit
    /\ ValidatorIdle
    /\ ViewInit
    /\ DevicesIdle
    /\ InstancesInit

(***************************************************************************)
(* Mutex (library/Mutex): a binary lock.                                   *)
(***************************************************************************)
MutexIsLocked(m) == m
MutexTryLock(m) == TRUE
MutexUnlock(m) == FALSE

(***************************************************************************)
(* BuildFlashFirmwareResult(success, message?, errorType?, firmwareBinPath?)*)
(***************************************************************************)
BuildFlashFirmwareResult(success, message, errorType, firmwareBinPath) ==
    [success |-> success, message |-> message, errorType |-> errorType,
     firmwareBinPath |-> firmwareBinPath]

\* The results buildFlashFirmware constructs, one definition per return.
BusyResult ==
    BuildFlashFirmwareResult(FALSE, "there is another build/flash request in progress...",
                             "GenericError", Undefined)

PythonErrorWithoutStdout(pythonCheck) ==
    BuildFlashFirmwareResult(FALSE, "Python dependency error: " \o pythonCheck.stderr,
                             "PythonDependencyError", Undefined)

PythonErrorResult(pythonCheck) ==
    BuildFlashFirmwareResult(FALSE,
        "Python dependency error: " \o pythonCheck.stderr \o " " \o pythonCheck.stdout,
        "PythonDependencyError", Undefined)

PlatformioErrorResult(platformioInstallResult) ==
    BuildFlashFirmwareResult(FALSE,
        "platformio error: " \o platformioInstallResult.stderr \o " "
            \o platformioInstallResult.stdout,
        "PlatformioDependencyError", Undefined)

GitErrorAsGeneric(e) ==
    BuildFlashFirmwareResult(FALSE, "Error: " \o e, "GenericError", Undefined)

\* The catch block of the git lookup.
GitErrorResult(e) ==
    BuildFlashFirmwareResult(FALSE, e, "GitDependencyError", Undefined)

\* Array.prototype.toString of a list of keys: the keys joined by commas.
RECURSIVE JoinKeys(_)
JoinKeys(keys) ==
    IF keys = <<>> THEN ""
    ELSE IF Len(keys) = 1 THEN keys[1]
    ELSE keys[1] \o "," \o JoinKeys(Tail(keys))

CompatErrorResult(compatCheck) ==
    BuildFlashFirmwareResult(FALSE,
        "Downloaded firmware is not compatible with the following user defines: "
            \o JoinKeys(compatCheck.keys),
        "BuildError", Undefined)

CompileErrorWrapped(compileResult) ==
    BuildFlashFirmwareResult(FALSE, "Build error: " \o compileResult.stderr,
                             "BuildError", Undefined)

CompileErrorResult(compileResult) ==
    BuildFlashFirmwareResult(FALSE, compileResult.stderr, "BuildError", Undefined)

FlashErrorUntyped(flashResult) ==
    BuildFlashFirmwareResult(FALSE, flashResult.stderr, Undefined, Undefined)

FlashErrorResult(flashResult) ==
    BuildFlashFirmwareResult(FALSE, flashResult.stderr, "FlashError", Undefined)

BuildDoneWithoutPath(firmwareBinPath) ==
    BuildFlashFirmwareResult(TRUE, Undefined, Undefined, Undefined)

BuildDoneResult(firmwareBinPath) ==
    BuildFlashFirmwareResult(TRUE, Undefined, Undefined, firmwareBinPath)

FlashDoneResult ==
    BuildFlashFirmwareResult(TRUE, Undefined, Undefined, Undefined)

CatchResultAsBuildError(e) ==
    BuildFlashFirmwareResult(FALSE, "Error: " \o e, "BuildError", Undefined)

\* The catch block of the pipeline.
CatchResult(e) ==
    BuildFlashFirmwareResult(FALSE, "Error: " \o e, "GenericError", Undefined)

UnnamedSourceError(source) == "Error: unsupported firmware source"
UnnamedModeError(mode) == "Error: unsupported user defines mode"

UnsupportedSourceError(source) == "Error: unsupported firmware source: " \o source
UnsupportedModeError(mode) == "Error: unsupported user defines mode: " \o mode

(***************************************************************************)
(* The outcome of an operation invoked on the backend.                     *)
(***************************************************************************)
Outcome(kind, success, stdout, stderr, value, keys) ==
    [kind |-> kind, success |-> success, stdout |-> stdout, stderr |-> stderr,
     value |-> value, keys |-> keys]
Pending == Outcome("pending", FALSE, "", "", "", <<>>)
\* {success, stdout, stderr} of checkPython, checkCore, install, build, flash.
CommandResults ==
    {Outcome("returned", TRUE, o, "", "", <<>>) : o \in Stdouts}
        \cup {Outcome("returned", FALSE, o, e, "", <<>>) : o \in Stdouts, e \in Stderrs}
\* A value: the git path, the checked-out path, the platformio state, the bin path.
Value(v) == Outcome("returned", TRUE, "", "", v, <<>>)
Threw(e) == Outcome("threw", FALSE, "", "", e, <<>>)

AllKeys(defs) == [i \in 1..Len(defs) |-> defs[i].key]

\* The keys of the enabled defines, in input order (filter, then map).
EnabledKeys(defs) ==
    LET enabled == SelectSeq(defs, LAMBDA d : d.enabled)
    IN  [i \in 1..Len(enabled) |-> enabled[i].key]

\* {compatible, incompatibleKeys} of checkDefaultUserDefinesCompatibilityAtPath.
CompatResults(keys) ==
    {Outcome("returned", TRUE, "", "", "", <<>>)}
        \cup {Outcome("returned", FALSE, "", "", "", SubSeq(keys, 1, n)) : n \in 1..Len(keys)}

\* UserDefinesTxtFactory.build: one line per enabled define, in input order.
DefineLine(d) ==
    IF d.type = "Boolean" THEN "-D" \o d.key
    ELSE "-D" \o d.key \o "=" \o d.value
RECURSIVE JoinLines(_)
JoinLines(defs) ==
    IF defs = <<>> THEN ""
    ELSE IF Len(defs) = 1 THEN DefineLine(defs[1])
    ELSE DefineLine(defs[1]) \o "\n" \o JoinLines(Tail(defs))
UserDefinesTxtFactoryBuild(defs) ==
    JoinLines(SelectSeq(defs, LAMBDA d : d.enabled))

\* FirmwareBuilder.getFirmwareBinPath(target, firmwarePath).
GetFirmwareBinPath(target, path) ==
    path \o "/src/.pio/build/" \o target \o "/firmware.bin"

(***************************************************************************)
(* Publishing and invoking.                                                *)
(***************************************************************************)
\* The step each updateProgress call of the pipeline publishes, by the await
\* the call is made in.
PublishedStepSwapped(site) ==
    CASE site = "progressVerifying" -> "VERIFYING_BUILD_SYSTEM"
      [] site = "progressDownloading" -> "BUILDING_USER_DEFINES"
      [] site = "progressUserDefines" -> "DOWNLOADING_FIRMWARE"
      [] site = "progressBuilding" -> "BUILDING_FIRMWARE"
      [] site = "progressFlashing" -> "FLASHING_FIRMWARE"

PublishedStep(site) ==
    CASE site = "progressVerifying" -> "VERIFYING_BUILD_SYSTEM"
      [] site = "progressDownloading" -> "DOWNLOADING_FIRMWARE"
      [] site = "progressUserDefines" -> "BUILDING_USER_DEFINES"
      [] site = "progressBuilding" -> "BUILDING_FIRMWARE"
      [] site = "progressFlashing" -> "FLASHING_FIRMWARE"

ProgressEvent(c, site) == [call |-> c, type |-> "Info", step |-> PublishedStep(site)]

\* updateProgress: the event reaches the topic, or the call fails before it
\* does (delivered = FALSE) and the awaited promise is rejected.
UpdateProgress(c, site, delivered) ==
    IF delivered THEN Append(progress, ProgressEvent(c, site)) ELSE progress

\* Whether the updateProgress call that c awaits has reached the topic.
Delivered(c) ==
    /\ progress # <<>>
    /\ progress[Len(progress)] = ProgressEvent(c, pc[c])

UpdateLogsInFront(c, data) == <<[call |-> c, data |-> data]>> \o logs

\* updateLogs.
UpdateLogs(c, data) == Append(logs, [call |-> c, data |-> data])

\* An operation of the backend is invoked; its outcome is pending.
Invoke(log, c, op, args) ==
    Append(log, [call |-> c, op |-> op, args |-> args, out |-> Pending])

\* The operation c awaits settles with outcome out.
Settle(c, out) ==
    [i \in 1..Len(ops) |->
        IF ops[i].call = c /\ ops[i].out.kind = "pending"
        THEN [ops[i] EXCEPT !.out = out] ELSE ops[i]]

(***************************************************************************)
(* How a segment ends: at the next await, at a return, or in the catch     *)
(* block; a return and the catch block run the finally block.              *)
(***************************************************************************)
FinallyUnlessCaught(c) ==
    locked' = IF caught'[c] # Undefined THEN locked ELSE MutexUnlock(locked)

Finally(c) == locked' = MutexUnlock(locked)

Suspend(c, at) ==
    /\ pc' = [pc EXCEPT ![c] = at]
    /\ UNCHANGED <<locked, caught, result>>

ReturnHoldingGuard(c, res) ==
    /\ pc' = [pc EXCEPT ![c] = "returned"]
    /\ result' = [result EXCEPT ![c] = res]
    /\ UNCHANGED <<locked, caught>>

Return(c, res) ==
    /\ pc' = [pc EXCEPT ![c] = "returned"]
    /\ result' = [result EXCEPT ![c] = res]
    /\ caught' = caught
    /\ Finally(c)

Catch(c, e) ==
    /\ pc' = [pc EXCEPT ![c] = "returned"]
    /\ result' = [result EXCEPT ![c] = CatchResult(e)]
    /\ caught' = [caught EXCEPT ![c] = e]
    /\ Finally(c)

\* The awaited operation throws: the catch block takes the exception.
AwaitThrows(c) ==
    \E e \in Exceptions :
        /\ Catch(c, e)
        /\ ops' = Settle(c, Threw(e))
        /\ UNCHANGED <<params, firmwarePath, userDefines, progress, logs>>

(***************************************************************************)
(* buildFlashFirmware, segment by segment.                                 *)
(***************************************************************************)
GuardNeverHeld == FALSE

\* if (this.mutex.isLocked())
GuardHeld == MutexIsLocked(locked)

\* The entries of a history that remain when the frames of the calls in
\* dropped are dropped.
Keep(log, dropped) == SelectSeq(log, LAMBDA entry : entry.call \notin dropped)
ReturnedCalls == {d \in Calls : pc[d] = "returned"}

RejectAndUnlock(c) ==
    /\ pc' = [pc EXCEPT ![c] = "returned"]
    /\ result' = [result EXCEPT ![c] = BusyResult]
    /\ locked' = MutexUnlock(locked)
    /\ UNCHANGED <<params, firmwarePath, userDefines, caught, progress, logs, ops>>

\* The return of the busy result, before the try block.
Reject(c) ==
    /\ pc' = [pc EXCEPT ![c] = "returned"]
    /\ result' = [result EXCEPT ![c] = BusyResult]
    /\ UNCHANGED <<locked, params, firmwarePath, userDefines, caught,
                   progress, logs, ops>>

\* The call arrives and takes the first free frame.  Held guard: it returns
\* the busy result.  Free guard: it locks, publishes VERIFYING_BUILD_SYSTEM
\* and suspends.
Call(c, p) ==
    /\ pc[c] = "idle"
    /\ \A d \in Calls : d < c => pc[d] # "idle"
    /\ IF GuardHeld
       THEN Reject(c)
       ELSE /\ locked' = MutexTryLock(locked)
            /\ pc' = [d \in Calls |->
                        IF d = c THEN "progressVerifying"
                        ELSE IF pc[d] = "returned" THEN "idle" ELSE pc[d]]
            /\ params' = [d \in Calls |->
                        IF d = c THEN p
                        ELSE IF pc[d] = "returned" THEN NoParams ELSE params[d]]
            /\ firmwarePath' = [d \in Calls |->
                        IF d = c \/ pc[d] = "returned" THEN "" ELSE firmwarePath[d]]
            /\ userDefines' = [d \in Calls |->
                        IF d = c \/ pc[d] = "returned" THEN "" ELSE userDefines[d]]
            /\ caught' = [d \in Calls |->
                        IF d = c \/ pc[d] = "returned" THEN Undefined ELSE caught[d]]
            /\ result' = [d \in Calls |->
                        IF d = c \/ pc[d] = "returned" THEN NoResult ELSE result[d]]
            /\ \E delivered \in BOOLEAN :
                 progress' = IF delivered
                             THEN Append(Keep(progress, ReturnedCalls),
                                         ProgressEvent(c, "progressVerifying"))
                             ELSE Keep(progress, ReturnedCalls)
            /\ logs' = Keep(logs, ReturnedCalls)
            /\ ops' = Keep(ops, ReturnedCalls)
    /\ UNCHANGED outsideService

\* The requests that can arrive.  A call that finds the guard held returns
\* before it reads its parameter: one request stands for all of them.
Requests == IF GuardHeld THEN {CHOOSE p \in ParamsSet : TRUE} ELSE ParamsSet

\* The caller drops the result it was given.
Forget(c) ==
    /\ pc[c] = "returned"
    /\ pc' = [pc EXCEPT ![c] = "idle"]
    /\ params' = [params EXCEPT ![c] = NoParams]
    /\ firmwarePath' = [firmwarePath EXCEPT ![c] = ""]
    /\ userDefines' = [userDefines EXCEPT ![c] = ""]
    /\ caught' = [caught EXCEPT ![c] = Undefined]
    /\ result' = [result EXCEPT ![c] = NoResult]
    /\ progress' = Keep(progress, {c})
    /\ logs' = Keep(logs, {c})
    /\ ops' = Keep(ops, {c})
    /\ UNCHANGED locked
    /\ UNCHANGED outsideService

\* An awaited updateProgress or updateLogs throws.
PublishThrows(c) ==
    \E e \in Exceptions :
        /\ Catch(c, e)
        /\ UNCHANGED <<params, firmwarePath, userDefines, progress, logs, ops>>

\* await updateProgress(VERIFYING_BUILD_SYSTEM); checkPython()
AfterProgressVerifying(c) ==
    /\ pc[c] = "progressVerifying"
    /\ \/ /\ Delivered(c)
          /\ Suspend(c, "checkPython")
          /\ ops' = Invoke(ops, c, "checkPython", <<>>)
          /\ UNCHANGED <<params, firmwarePath, userDefines, progress, logs>>
       \/ PublishThrows(c)
    /\ UNCHANGED outsideService

PythonCheckIgnored(pythonCheck) == FALSE

\* if (!pythonCheck.success)
PythonCheckFailed(pythonCheck) == ~pythonCheck.success

\* await checkPython(); checkCore()
AfterCheckPython(c) ==
    /\ pc[c] = "checkPython"
    /\ \/ \E r \in CommandResults :
            /\ IF PythonCheckFailed(r)
               THEN /\ Return(c, PythonErrorResult(r))
                    /\ ops' = Settle(c, r)
               ELSE /\ Suspend(c, "checkCore")
                    /\ ops' = Invoke(Settle(c, r), c, "checkCore", <<>>)
            /\ UNCHANGED <<params, firmwarePath, userDefines, progress, logs>>
       \/ AwaitThrows(c)
    /\ UNCHANGED outsideService

CoreCheckNeverFailed(coreCheck) == FALSE

\* if (!coreCheck.success)
CoreCheckFailed(coreCheck) == ~coreCheck.success

\* await checkCore(); updateLogs(notice) | findGitExecutable(PATH)
AfterCheckCore(c) ==
    /\ pc[c] = "checkCore"
    /\ \/ \E r \in CommandResults :
            /\ IF CoreCheckFailed(r)
               THEN /\ Suspend(c, "logInstallNotice")
                    /\ logs' = UpdateLogs(c, PlatformioNotice)
                    /\ ops' = Settle(c, r)
               ELSE /\ Suspend(c, "findGit")
                    /\ logs' = logs
                    /\ ops' = Invoke(Settle(c, r), c, "findGitExecutable", <<"PATH">>)
            /\ UNCHANGED <<params, firmwarePath, userDefines, progress>>
       \/ AwaitThrows(c)
    /\ UNCHANGED outsideService

\* await updateLogs(notice); install(callback)
AfterLogInstallNotice(c) ==
    /\ pc[c] = "logInstallNotice"
    /\ \/ /\ Suspend(c, "install")
          /\ ops' = Invoke(ops, c, "install", <<>>)
          /\ UNCHANGED <<params, firmwarePath, userDefines, progress, logs>>
       \/ PublishThrows(c)
    /\ UNCHANGED outsideService

\* await install(callback); findGitExecutable(PATH)
AfterInstall(c) ==
    /\ pc[c] = "install"
    /\ \/ \E r \in CommandResults :
            /\ IF ~r.success
               THEN /\ Return(c, PlatformioErrorResult(r))
                    /\ ops' = Settle(c, r)
               ELSE /\ Suspend(c, "findGit")
                    /\ ops' = Invoke(Settle(c, r), c, "findGitExecutable", <<"PATH">>)
            /\ UNCHANGED <<params, firmwarePath, userDefines, progress, logs>>
       \/ AwaitThrows(c)
    /\ UNCHANGED outsideService

\* await findGitExecutable(PATH), in its own try; updateProgress(DOWNLOADING_FIRMWARE)
AfterFindGit(c) ==
    /\ pc[c] = "findGit"
    /\ \/ \E gitPath \in GitPaths, delivered \in BOOLEAN :
            /\ Suspend(c, "progressDownloading")
            /\ ops' = Settle(c, Value(gitPath))
            /\ progress' = UpdateProgress(c, "progressDownloading", delivered)
       \/ \E e \in Exceptions :
            /\ Return(c, GitErrorResult(e))
            /\ ops' = Settle(c, Threw(e))
            /\ progress' = progress
    /\ UNCHANGED <<params, firmwarePath, userDefines, logs>>
    /\ UNCHANGED outsideService

\* The ref the switch on params.firmware.source hands to checkoutTag.
CheckoutRef(firmware) ==
    CASE firmware.source = "GitTag" -> firmware.gitTag
      [] firmware.source = "GitBranch" -> firmware.gitBranch
      [] firmware.source = "GitCommit" -> firmware.gitTag

GitSources == {"GitTag", "GitBranch", "GitCommit"}

\* await updateProgress(DOWNLOADING_FIRMWARE); switch (params.firmware.source)
AfterProgressDownloading(c) ==
    /\ pc[c] = "progressDownloading"
    /\ \/ /\ Delivered(c)
          /\ params[c].firmware.source \in GitSources
          /\ Suspend(c, "checkout")
          /\ ops' = Invoke(ops, c, "checkoutTag",
                           <<GitRepoUrl, CheckoutRef(params[c].firmware)>>)
          /\ UNCHANGED <<params, firmwarePath, userDefines, progress, logs>>
       \/ /\ Delivered(c)
          /\ params[c].firmware.source = "Local"
          /\ Suspend(c, "progressUserDefines")
          /\ firmwarePath' = [firmwarePath EXCEPT ![c] = params[c].firmware.localPath]
          /\ \E delivered \in BOOLEAN :
               progress' = UpdateProgress(c, "progressUserDefines", delivered)
          /\ UNCHANGED <<params, userDefines, logs, ops>>
       \/ /\ Delivered(c)
          /\ params[c].firmware.source \notin GitSources \cup {"Local"}
          /\ Catch(c, UnsupportedSourceError(params[c].firmware.source))
          /\ UNCHANGED <<params, firmwarePath, userDefines, progress, logs, ops>>
       \/ PublishThrows(c)
    /\ UNCHANGED outsideService

\* await checkoutTag(url, ref); updateProgress(BUILDING_USER_DEFINES)
AfterCheckout(c) ==
    /\ pc[c] = "checkout"
    /\ \/ \E path \in CheckoutPaths, delivered \in BOOLEAN :
            /\ Suspend(c, "progressUserDefines")
            /\ firmwarePath' = [firmwarePath EXCEPT ![c] = path]
            /\ ops' = Settle(c, Value(path))
            /\ progress' = UpdateProgress(c, "progressUserDefines", delivered)
            /\ UNCHANGED <<params, userDefines, logs>>
       \/ AwaitThrows(c)
    /\ UNCHANGED outsideService

ManualUserDefinesBuilt(p) == UserDefinesTxtFactoryBuild(p.userDefines)

\* case UserDefinesMode.Manual: userDefines = params.userDefinesTxt
ManualUserDefines(p) == p.userDefinesTxt

\* await updateProgress(BUILDING_USER_DEFINES); the compatibility check in
\* UserInterface mode; otherwise the switch on params.userDefinesMode
AfterProgressUserDefines(c) ==
    /\ pc[c] = "progressUserDefines"
    /\ \/ /\ Delivered(c)
          /\ params[c].userDefinesMode = "UserInterface"
          /\ Suspend(c, "compatCheck")
          /\ ops' = Invoke(ops, c, "checkDefaultUserDefinesCompatibilityAtPath",
                           <<firmwarePath[c], EnabledKeys(params[c].userDefines)>>)
          /\ UNCHANGED <<params, firmwarePath, userDefines, progress, logs>>
       \/ /\ Delivered(c)
          /\ params[c].userDefinesMode = "Manual"
          /\ Suspend(c, "platformioState")
          /\ userDefines' = [userDefines EXCEPT ![c] = ManualUserDefines(params[c])]
          /\ ops' = Invoke(ops, c, "getPlatformioState", <<>>)
          /\ UNCHANGED <<params, firmwarePath, progress, logs>>
       \/ /\ Delivered(c)
          /\ params[c].userDefinesMode \notin {"UserInterface", "Manual"}
          /\ Catch(c, UnsupportedModeError(params[c].userDefinesMode))
          /\ UNCHANGED <<params, firmwarePath, userDefines, progress, logs, ops>>
       \/ PublishThrows(c)
    /\ UNCHANGED outsideService

\* await checkDefaultUserDefinesCompatibilityAtPath(); UserDefinesTxtFactory.build;
\* getPlatformioState()
AfterCompatCheck(c) ==
    /\ pc[c] = "compatCheck"
    /\ \/ \E r \in CompatResults(EnabledKeys(params[c].userDefines)) :
            /\ ~r.success
            /\ Return(c, CompatErrorResult(r))
            /\ ops' = Settle(c, r)
            /\ UNCHANGED <<params, firmwarePath, userDefines, progress, logs>>
       \/ \E r \in CompatResults(EnabledKeys(params[c].userDefines)) :
            /\ r.success
            /\ Suspend(c, "platformioState")
            /\ userDefines' = [userDefines EXCEPT
                                 ![c] = UserDefinesTxtFactoryBuild(params[c].userDefines)]
            /\ ops' = Invoke(Settle(c, r), c, "getPlatformioState", <<>>)
            /\ UNCHANGED <<params, firmwarePath, progress, logs>>
       \/ \E r \in CompatResults(EnabledKeys(params[c].userDefines)), e \in Exceptions :
            \* UserDefinesTxtFactory.build throws
            /\ r.success
            /\ Catch(c, e)
            /\ ops' = Settle(c, r)
            /\ UNCHANGED <<params, firmwarePath, userDefines, progress, logs>>
       \/ AwaitThrows(c)
    /\ UNCHANGED outsideService

\* await getPlatformioState(); updateProgress(BUILDING_FIRMWARE)
AfterPlatformioState(c) ==
    /\ pc[c] = "platformioState"
    /\ \/ \E delivered \in BOOLEAN :
            /\ Suspend(c, "progressBuilding")
            /\ ops' = Settle(c, Value("{}"))
            /\ progress' = UpdateProgress(c, "progressBuilding", delivered)
            /\ UNCHANGED <<params, firmwarePath, userDefines, logs>>
       \/ AwaitThrows(c)
    /\ UNCHANGED outsideService

\* await updateProgress(BUILDING_FIRMWARE); builder.build(target, userDefines,
\* firmwarePath, callback)
AfterProgressBuilding(c) ==
    /\ pc[c] = "progressBuilding"
    /\ \/ /\ Delivered(c)
          /\ Suspend(c, "compile")
          /\ ops' = Invoke(ops, c, "build",
                           <<params[c].target, userDefines[c], firmwarePath[c]>>)
          /\ UNCHANGED <<params, firmwarePath, userDefines, progress, logs>>
       \/ PublishThrows(c)
    /\ UNCHANGED outsideService

BuildJobNever(p) == FALSE

\* if (params.type === BuildJobType.Build)
IsBuildJob(p) == p.type = "Build"

\* await builder.build(); getFirmwareBinPath for a Build job; otherwise
\* updateProgress(FLASHING_FIRMWARE)
AfterCompile(c) ==
    /\ pc[c] = "compile"
    /\ \/ \E r \in CommandResults :
            /\ ~r.success
            /\ Return(c, CompileErrorResult(r))
            /\ ops' = Settle(c, r)
            /\ UNCHANGED <<params, firmwarePath, userDefines, progress, logs>>
       \/ \E r \in CommandResults :
            /\ r.success
            /\ IsBuildJob(params[c])
            /\ LET args == <<params[c].target, firmwarePath[c]>>
                   firmwareBinPath == GetFirmwareBinPath(args[1], args[2])
               IN  \/ /\ Return(c, BuildDoneResult(firmwareBinPath))
                      /\ ops' = Append(Settle(c, r),
                                  [call |-> c, op |-> "getFirmwareBinPath", args |-> args,
                                   out |-> Value(firmwareBinPath)])
                   \/ \E e \in Exceptions :
                      /\ Catch(c, e)
                      /\ ops' = Append(Settle(c, r),
                                  [call |-> c, op |-> "getFirmwareBinPath", args |-> args,
                                   out |-> Threw(e)])
            /\ UNCHANGED <<params, firmwarePath, userDefines, progress, logs>>
       \/ \E r \in CommandResults, delivered \in BOOLEAN :
            /\ r.success
            /\ ~IsBuildJob(params[c])
            /\ Suspend(c, "progressFlashing")
            /\ ops' = Settle(c, r)
            /\ progress' = UpdateProgress(c, "progressFlashing", delivered)
            /\ UNCHANGED <<params, firmwarePath, userDefines, logs>>
       \/ AwaitThrows(c)
    /\ UNCHANGED outsideService

\* await updateProgress(FLASHING_FIRMWARE); builder.flash(target, firmwarePath, callback)
AfterProgressFlashing(c) ==
    /\ pc[c] = "progressFlashing"
    /\ \/ /\ Delivered(c)
          /\ Suspend(c, "flash")
          /\ ops' = Invoke(ops, c, "flash", <<params[c].target, firmwarePath[c]>>)
          /\ UNCHANGED <<params, firmwarePath, userDefines, progress, logs>>
       \/ PublishThrows(c)
    /\ UNCHANGED outsideService

\* await builder.flash()
AfterFlash(c) ==
    /\ pc[c] = "flash"
    /\ \/ \E r \in CommandResults :
            /\ IF ~r.success
               THEN Return(c, FlashErrorResult(r))
               ELSE Return(c, FlashDoneResult)
            /\ ops' = Settle(c, r)
            /\ UNCHANGED <<params, firmwarePath, userDefines, progress, logs>>
       \/ AwaitThrows(c)
    /\ UNCHANGED outsideService

\* The number of output chunks published in this run.
ChunkCount == Len(SelectSeq(logs, LAMBDA l : l.data \in Chunks))

\* install, build or flash hands a chunk of output to its callback, which
\* calls updateLogs and does not await it.
OutputCallback(c, chunk) ==
    /\ pc[c] \in {"install", "compile", "flash"}
    /\ logs' = UpdateLogs(c, chunk)
    /\ UNCHANGED <<locked, frames, progress, ops>>
    /\ UNCHANGED outsideService

Output(c, chunk) ==
    /\ ChunkCount < MaxChunks
    /\ OutputCallback(c, chunk)

\* A segment of buildFlashFirmware in call c.
Segment(c) ==
        \/ \E p \in Requests : Call(c, p)
        \/ Forget(c)
        \/ AfterProgressVerifying(c)
        \/ AfterCheckPython(c)
        \/ AfterCheckCore(c)
        \/ AfterLogInstallNotice(c)
        \/ AfterInstall(c)
        \/ AfterFindGit(c)
        \/ AfterProgressDownloading(c)
        \/ AfterCheckout(c)
        \/ AfterProgressUserDefines(c)
        \/ AfterCompatCheck(c)
        \/ AfterPlatformioState(c)
        \/ AfterProgressBuilding(c)
        \/ AfterCompile(c)
        \/ AfterProgressFlashing(c)
        \/ AfterFlash(c)

Next ==
    \E c \in Calls :
        \/ Segment(c)
        \/ \E chunk \in Chunks : Output(c, chunk)

Spec == Init /\ [][Next]_vars

(***************************************************************************)
(* One caller, and a backend that hands more output to the callbacks.      *)
(***************************************************************************)
\* Number of output chunks the backend hands to the output callbacks in one
\* run of the single caller.
MaxOutput == 3

RunOutput(c, chunk) ==
    /\ ChunkCount < MaxOutput
    /\ OutputCallback(c, chunk)

OutputNext ==
    \/ Segment(1)
    \/ \E chunk \in Chunks : RunOutput(1, chunk)

OutputSpec == Init /\ [][OutputNext]_vars

\* The continuation of call c after the await it is suspended at.
Resume(c) ==
    \/ AfterProgressVerifying(c)
    \/ AfterCheckPython(c)
    \/ AfterCheckCore(c)
    \/ AfterLogInstallNotice(c)
    \/ AfterInstall(c)
    \/ AfterFindGit(c)
    \/ AfterProgressDownloading(c)
    \/ AfterCheckout(c)
    \/ AfterProgressUserDefines(c)
    \/ AfterCompatCheck(c)
    \/ AfterPlatformioState(c)
    \/ AfterProgressBuilding(c)
    \/ AfterCompile(c)
    \/ AfterProgressFlashing(c)
    \/ AfterFlash(c)

\* Every awaited promise settles and the event loop then runs the
\* continuation: a suspended call is eventually resumed.
LiveSpec == Spec /\ \A c \in Calls : WF_vars(Resume(c))

(***************************************************************************)
(* validateFirmwareVersionData, applied to a descriptor.                   *)
(***************************************************************************)
\* A value of FirmwareSource the switch has no case for.
UnknownSources == {"Unknown"}

\* The descriptors the validator is given: every variant, each field empty
\* or set, the pull request null, with an empty hash or with a hash.
Descriptors ==
    [source : FirmwareSources \cup UnknownSources,
     gitTag : {"", "v1.0"}, gitBranch : {"", "master"},
     gitCommit : {"", "abc123"}, localPath : {"", "/x"},
     gitPullRequest : {NullPullRequest, PullRequest(""), PullRequest("f00d")}]

ValidateInit ==
    /\ ServiceInit
    /\ ViewInit
    /\ DevicesIdle
    /\ InstancesInit
    /\ descriptor \in Descriptors
    /\ validation = NotValidated

\* validateFirmwareVersionData(descriptor)
Validate ==
    /\ ~validation.done
    /\ LET v == ValidateFirmwareVersionData(descriptor)
       IN  validation' = [done |-> TRUE, threw |-> v.threw, errors |-> v.errors]
    /\ UNCHANGED <<descriptor, outsideValidator>>

ValidateNext == Validate

ValidateSpec == ValidateInit /\ [][ValidateNext]_vars

(***************************************************************************)
(* ConfiguratorView: the handlers of the configuration form, each with the *)
(* effects its state updates trigger.                                      *)
(***************************************************************************)
\* Number of requests the view sends to the backend.
MaxRequests == 4

ViewStateConfiguration == "CONFIGURATION"
ViewStateCompiling == "https://xkcd.com/303/"

\* The descriptors the firmware version form hands to onFirmwareVersionData:
\* a branch, a branch not yet selected, a local path, a pull request not yet
\* selected.
ViewDescriptors ==
    {[NewFirmwareVersionDataInput EXCEPT !.gitBranch = "master"],
     NewFirmwareVersionDataInput,
     [NewFirmwareVersionDataInput EXCEPT !.source = "Local", !.localPath = "/x"],
     [NewFirmwareVersionDataInput EXCEPT !.source = "GitPullRequest"]}

DeviceTargets == {Null, "TARGET_A"}

\* The values of the device options form.
DeviceOptionsForms ==
    {EmptyDeviceOptionsFormData,
     [userDefinesTxt |-> "#manual", userDefinesMode |-> "Manual",
      userDefineOptions |-> <<>>],
     [userDefinesTxt |-> "", userDefinesMode |-> "UserInterface",
      userDefineOptions |-> UserDefinesA]}

\* What new UserDefinesValidator().validate(userDefineOptions) returns.
ValidatorResults == {<<>>, <<"invalid user defines">>}

\* A query or mutation sent to the backend.
Request(kind, firmware, target, type) ==
    [kind |-> kind, firmware |-> firmware, target |-> target, type |-> type,
     serialDevice |-> Undefined]

\* What the query for the targets of a firmware version returns: devices,
\* each with its targets and the flashing method of each.
TargetsCatalog ==
  [isNull |-> FALSE, devices |->
    << [name |-> "Device A",
        targets |-> << [name |-> "T_UART", flashingMethod |-> "UART"],
                       [name |-> "T_BF", flashingMethod |-> "BetaflightPassthrough"],
                       [name |-> "T_WIFI", flashingMethod |-> "WIFI"] >>],
       [name |-> "Device B",
        targets |-> << [name |-> "T_STLINK", flashingMethod |-> "STLink"] >>] >>]

\* No target of that name.
NoTarget == [name |-> Undefined, flashingMethod |-> Undefined]

\* The effect on [deviceTarget, deviceTargets], its loop: of every device that
\* has a target of that name, the last one gives the target; undefined when
\* there is none, or no list of targets.
FindTarget(list, name) ==
    LET has(i) == \E j \in 1..Len(list.devices[i].targets) :
                    list.devices[i].targets[j].name = name
        having == {i \in 1..Len(list.devices) : has(i)}
    IN  IF having = {} THEN NoTarget
        ELSE LET i == CHOOSE k \in having : \A m \in having : m <= k
                 j == CHOOSE k \in 1..Len(list.devices[i].targets) :
                        /\ list.devices[i].targets[k].name = name
                        /\ \A m \in 1..(k - 1) : list.devices[i].targets[m].name # name
             IN  list.devices[i].targets[j]

SerialRequiredAlways(list, name) == TRUE

\* The effect on [deviceTarget, deviceTargets]: setSerialPortRequired(...)
SerialRequiredBy(list, name) ==
    /\ FindTarget(list, name) # NoTarget
    /\ FindTarget(list, name).flashingMethod \in {"BetaflightPassthrough", "UART"}

\* The effect on [deviceTarget, deviceTargets]: setWifiDeviceRequired(...)
WifiRequiredBy(list, name) ==
    /\ FindTarget(list, name) # NoTarget
    /\ FindTarget(list, name).flashingMethod = "WIFI"

\* The effect on [deviceTarget, deviceTargets], with the values the render
\* that follows the handler has.
FlashingMethodEffect(list, name) ==
    /\ serialPortRequired' = SerialRequiredBy(list, name)
    /\ wifiDeviceRequired' = WifiRequiredBy(list, name)

\* The effect on [firmwareVersionData]: fetchDeviceTargets.
FetchDeviceTargetsEffect(sent, data) ==
    IF data = NoFirmwareVersionData THEN sent
    ELSE Append(sent, Request("availableFirmwareTargets", data, Null, Null))

FetchOptionsAlways(target, data) == FALSE

\* The condition of the effect on [deviceTarget, firmwareVersionData].
FetchOptionsSkipped(target, data) ==
    \/ target = Null
    \/ data = NoFirmwareVersionData
    \/ Len(ValidateFirmwareVersionData(data).errors) > 0

\* The effect on [deviceTarget, firmwareVersionData]: fetchOptions, or the
\* form is emptied.
FetchOptionsEffect(sent, target, data) ==
    IF FetchOptionsSkipped(target, data) THEN sent
    ELSE Append(sent, Request("targetDeviceOptions", data, target, Null))

FetchOptionsEffectForm(form, target, data) ==
    IF FetchOptionsSkipped(target, data) THEN EmptyDeviceOptionsFormData ELSE form

\* onFirmwareVersionData(data), with a new descriptor object: both effects run.
OnFirmwareVersionData(data) ==
    /\ Len(FetchOptionsEffect(FetchDeviceTargetsEffect(requests, data),
                              deviceTarget, data)) <= MaxRequests
    /\ firmwareVersionErrors' = <<>>
    /\ firmwareVersionData' = data
    /\ requests' = FetchOptionsEffect(FetchDeviceTargetsEffect(requests, data),
                                      deviceTarget, data)
    /\ deviceOptionsFormData'
         = FetchOptionsEffectForm(deviceOptionsFormData, deviceTarget, data)
    /\ UNCHANGED <<viewState, deviceTarget, deviceTargetErrors,
                   deviceOptionsValidationErrors, currentJobType>>
    /\ UNCHANGED <<logVars, noticeVars, mutationVars, transportVars, outsideView>>

\* setDeviceTarget(target): the effects on the target run when it changes.
SetDeviceTarget(target) ==
    /\ Len(requests) < MaxRequests
    /\ deviceTarget' = target
    /\ IF target = deviceTarget
       THEN UNCHANGED <<requests, deviceOptionsFormData>>
       ELSE /\ requests' = FetchOptionsEffect(requests, target, firmwareVersionData)
            /\ deviceOptionsFormData'
                 = FetchOptionsEffectForm(deviceOptionsFormData, target,
                                          firmwareVersionData)
    /\ FlashingMethodEffect(deviceTargets, target)
    /\ UNCHANGED <<viewState, firmwareVersionData, firmwareVersionErrors,
                   deviceOptionsValidationErrors, currentJobType>>
    /\ UNCHANGED <<deviceTargets, serialDevice>>
    /\ UNCHANGED <<logVars, noticeVars, mutationVars>>

\* onDeviceTarget(data)
OnDeviceTarget(target) ==
    /\ deviceTargetErrors' = <<>>
    /\ SetDeviceTarget(target)
    /\ UNCHANGED wifiDevice
    /\ UNCHANGED outsideView

\* onUserDefines(data)
OnUserDefines(form) ==
    /\ deviceOptionsFormData' = form
    /\ UNCHANGED <<viewState, firmwareVersionData, firmwareVersionErrors, deviceTarget,
                   deviceTargetErrors, deviceOptionsValidationErrors, currentJobType,
                   requests>>
    /\ UNCHANGED <<logVars, noticeVars, mutationVars, transportVars, outsideView>>

\* The three lists of errors after a handler: reset() empties them, and
\* sendJob then sets at most one of them.
SetErrors(source, target, options) ==
    /\ firmwareVersionErrors' = source
    /\ deviceTargetErrors' = target
    /\ deviceOptionsValidationErrors' = options

\* reset(): the three lists of errors.
Reset == SetErrors(<<>>, <<>>, <<>>)

\* reset(): logsRef.current = []; setLogs('').  The buffer of the batcher is
\* not touched.
ResetLogs ==
    /\ logsRef' = <<>>
    /\ uiLogs' = ""
    /\ resetAt' = Len(batched)
    /\ UNCHANGED <<eventsBatcher, logUpdates, batched>>

\* reset(): progressNotificationsRef.current = []; setProgressNotifications([]);
\* setLastProgressNotification(null)
ResetProgressNotifications ==
    /\ progressNotificationsRef' = <<>>
    /\ progressNotifications' = <<>>
    /\ lastProgressNotification' = NoProgressNotification
    /\ progressResetAt' = Len(progressUpdates)
    /\ UNCHANGED progressUpdates

\* sendJob: uploadPort
UploadPort ==
    IF serialPortRequired /\ serialDevice # Null THEN serialDevice
    ELSE IF wifiDeviceRequired /\ wifiDevice # Null THEN wifiDevice
    ELSE Undefined

SendJobRejectedButSent ==
    /\ viewState' = viewState
    /\ requests' = Append(requests, Request("buildFlashFirmware", firmwareVersionData,
                                            deviceTarget, currentJobType'))
    /\ UNCHANGED mutationVars

\* sendJob returns before the mutation: nothing is sent, the view stays.
SendJobRejected ==
    UNCHANGED <<viewState, requests, mutationVars>>

\* buildFlashFirmwareMutation({variables: {input}}); setViewState(Compiling).
\* The hook reports loading from the call on.
SendJobAccepted(type) ==
    /\ Len(requests) < MaxRequests
    /\ requests' = Append(requests,
                          [Request("buildFlashFirmware", firmwareVersionData,
                                   deviceTarget, type)
                             EXCEPT !.serialDevice = UploadPort])
    /\ buildInProgress' = TRUE
    /\ mutations' = Append(mutations, [state |-> "pending", type |-> type,
                                       view |-> viewState, job |-> currentJobType])
    /\ viewState' = ViewStateCompiling

\* The errors of the firmware source sendJob finds.
SourceErrors ==
    IF firmwareVersionData = NoFirmwareVersionData
    THEN <<"Please select firmware source">>
    ELSE ValidateFirmwareVersionData(firmwareVersionData).errors

\* sendJob(type)
SendJob(type) ==
    /\ ResetLogs
    /\ ResetProgressNotifications
    /\ currentJobType' = type
    /\ IF SourceErrors # <<>>
       THEN /\ SetErrors(SourceErrors, <<>>, <<>>)
            /\ SendJobRejected
       ELSE IF deviceTarget = Null
       THEN /\ SetErrors(<<>>, <<"Please select a device target">>, <<>>)
            /\ SendJobRejected
       ELSE IF deviceOptionsFormData.userDefinesMode = "UserInterface"
       THEN \E errs \in ValidatorResults :
              IF Len(errs) > 0
              THEN /\ SetErrors(<<>>, <<>>, errs)
                   /\ SendJobRejected
              ELSE /\ Reset
                   /\ SendJobAccepted(type)
       ELSE /\ Reset
            /\ SendJobAccepted(type)
    /\ UNCHANGED <<firmwareVersionData, deviceTarget, deviceOptionsFormData>>
    /\ UNCHANGED <<transportVars, outsideView>>

\* onBack()
OnBack ==
    /\ Reset
    /\ ResetLogs
    /\ ResetProgressNotifications
    /\ viewState' = ViewStateConfiguration
    /\ UNCHANGED <<firmwareVersionData, deviceTarget, deviceOptionsFormData,
                   currentJobType, requests>>
    /\ UNCHANGED <<mutationVars, transportVars, outsideView>>

ViewNext ==
    \/ \E data \in ViewDescriptors : OnFirmwareVersionData(data)
    \/ \E target \in DeviceTargets : OnDeviceTarget(target)
    \/ \E form \in DeviceOptionsForms : OnUserDefines(form)
    \/ \E type \in JobTypes : SendJob(type)
    \/ OnBack

ViewSpec == Init /\ [][ViewNext]_vars

(***************************************************************************)
(* ConfiguratorView: the build logs.  The log subscription hands every     *)
(* chunk to an EventsBatcher, whose timer hands the chunks collected to    *)
(* the onBatch callback.                                                   *)
(***************************************************************************)
\* Number of chunks the log subscription receives.
MaxLogUpdates == 4

\* What options.subscriptionData.data?.buildLogUpdates.data is.
LogChunks == {"a", "bc"}

\* newLogsList.join('')
RECURSIVE Join(_)
Join(list) == IF list = <<>> THEN "" ELSE Head(list) \o Join(Tail(list))

OnBatchNewLogsOnly(current, newLogs) == newLogs

\* The onBatch callback: [...logsRef.current, ...newLogs]
OnBatch(current, newLogs) == current \o newLogs

\* onSubscriptionData of the log subscription: eventsBatcherRef.current.enqueue(args)
LogUpdate(args) ==
    /\ Len(logUpdates) < MaxLogUpdates
    /\ IF args = Undefined
       THEN UNCHANGED <<eventsBatcher, logUpdates>>
       ELSE /\ eventsBatcher' = Append(eventsBatcher, args)
            /\ logUpdates' = Append(logUpdates, args)
    /\ UNCHANGED <<logsRef, uiLogs, batched, resetAt>>
    /\ UNCHANGED <<formVars, noticeVars, mutationVars, transportVars, outsideView>>

\* The timer of the EventsBatcher: the buffer is handed to the onBatch
\* callback as one batch, and emptied.
FlushBatch ==
    /\ logsRef' = OnBatch(logsRef, eventsBatcher)
    /\ uiLogs' = Join(OnBatch(logsRef, eventsBatcher))
    /\ batched' = batched \o eventsBatcher
    /\ eventsBatcher' = <<>>
    /\ UNCHANGED <<logUpdates, resetAt>>
    /\ UNCHANGED <<formVars, noticeVars, mutationVars, transportVars, outsideView>>

LogNext ==
    \/ \E args \in LogChunks \cup {Undefined} : LogUpdate(args)
    \/ FlushBatch
    \/ \E type \in JobTypes : SendJob(type)
    \/ OnBack

LogSpec == Init /\ [][LogNext]_vars

(***************************************************************************)
(* ConfiguratorView: the progress of the build.  The progress subscription *)
(* appends every event to the list of notifications; reset empties it.     *)
(***************************************************************************)
\* Number of events the progress subscription receives.
MaxProgressEvents == 2

\* What options.subscriptionData.data?.buildProgressNotifications is.
ProgressEvents ==
    {[type |-> "Info", step |-> "VERIFYING_BUILD_SYSTEM"],
     [type |-> "Success", step |-> "BUILDING_FIRMWARE"]}

\* options.subscriptionData.data is undefined.
UndefinedNotification == [type |-> Undefined, step |-> Undefined]

NewNotificationOnly(current, args) == <<args>>

\* [...progressNotificationsRef.current, args]
NewNotificationsList(current, args) == Append(current, args)

\* onSubscriptionData of the progress subscription
ProgressNotification(args) ==
    /\ Len(progressUpdates) < MaxProgressEvents
    /\ IF args = UndefinedNotification
       THEN UNCHANGED noticeVars
       ELSE /\ progressNotificationsRef'
                 = NewNotificationsList(progressNotificationsRef, args)
            /\ progressNotifications'
                 = NewNotificationsList(progressNotificationsRef, args)
            /\ lastProgressNotification' = args
            /\ progressUpdates' = Append(progressUpdates, args)
            /\ UNCHANGED progressResetAt
    /\ UNCHANGED <<formVars, logVars, mutationVars, transportVars, outsideView>>

\* The view while a job is prepared, sent and watched: the source and the
\* target are chosen, the job is sent, progress events and logs arrive.
ProgressNext ==
    \/ \E args \in ProgressEvents \cup {UndefinedNotification} : ProgressNotification(args)
    \/ LogUpdate("a")
    \/ FlushBatch
    \/ OnFirmwareVersionData([NewFirmwareVersionDataInput EXCEPT !.gitBranch = "master"])
    \/ OnDeviceTarget("TARGET_A")
    \/ \E type \in JobTypes : SendJob(type)
    \/ OnBack

ProgressSpec == Init /\ [][ProgressNext]_vars

(***************************************************************************)
(* ConfiguratorView: the buttons of the two views, and the build mutation  *)
(* the backend completes.                                                  *)
(***************************************************************************)
\* const onBuild = () => sendJob(BuildJobType.Build)
OnBuild == SendJob("Build")

\* const onBuildAndFlash = () => sendJob(BuildJobType.BuildAndFlash)
OnBuildAndFlash == SendJob("BuildAndFlash")

\* The Configuration view is rendered: the forms, Build and Build & Flash.
ConfigurationView == viewState = ViewStateConfiguration

OfferedWhileCompiling == viewState = ViewStateCompiling

\* The Compiling view is rendered and the build is not in progress: Back and
\* Retry.
BackAndRetryOffered ==
    /\ viewState = ViewStateCompiling
    /\ ~buildInProgress

\* <Button onClick={onBuild}>Build</Button>
BuildButton ==
    /\ ConfigurationView
    /\ OnBuild

\* <Button onClick={onBuildAndFlash}>Build & Flash</Button>
BuildAndFlashButton ==
    /\ ConfigurationView
    /\ OnBuildAndFlash

\* <Button onClick={onBack}>Back</Button>
BackButton ==
    /\ BackAndRetryOffered
    /\ OnBack

\* <Button onClick={onBuildAndFlash}>Retry</Button>
RetryButton ==
    /\ BackAndRetryOffered
    /\ OnBuildAndFlash

\* The backend answers mutation i, with a result or an error: the hook stops
\* reporting loading when it is the mutation called last.
MutationCompletes(i) ==
    /\ mutations[i].state = "pending"
    /\ mutations' = [mutations EXCEPT ![i].state = "done"]
    /\ buildInProgress' = IF i = Len(mutations) THEN FALSE ELSE buildInProgress
    /\ UNCHANGED <<formVars, logVars, noticeVars, transportVars, outsideView>>

\* The view as its user drives it: the source and the target are chosen in
\* the Configuration view, and the buttons rendered are pressed.
ButtonNext ==
    \/ /\ ConfigurationView
       /\ \E data \in {NewFirmwareVersionDataInput,
                        [NewFirmwareVersionDataInput EXCEPT !.gitBranch = "master"]} :
            OnFirmwareVersionData(data)
    \/ /\ ConfigurationView
       /\ \E target \in DeviceTargets : OnDeviceTarget(target)
    \/ /\ ConfigurationView
       /\ \E form \in DeviceOptionsForms : OnUserDefines(form)
    \/ BuildButton
    \/ BuildAndFlashButton
    \/ BackButton
    \/ RetryButton
    \/ \E i \in 1..Len(mutations) : MutationCompletes(i)

ButtonSpec == Init /\ [][ButtonNext]_vars

(***************************************************************************)
(* ConfiguratorView: the device to flash through.  The targets arrive from *)
(* the backend, the target selected tells which device is required, and    *)
(* the select field of that device is rendered.                            *)
(***************************************************************************)
\* The targets the device target form hands to onDeviceTarget.
TransportTargets == {Null, "T_UART", "T_BF", "T_WIFI", "T_STLINK"}

\* The effect on [targetsResponse]: the targets of the response, or null when
\* there is no data; the effect on [deviceTarget, deviceTargets] follows.
TargetsResponse(list) ==
    /\ \E i \in 1..Len(requests) : requests[i].kind = "availableFirmwareTargets"
    /\ deviceTargets' = list
    /\ FlashingMethodEffect(list, deviceTarget)
    /\ UNCHANGED <<serialDevice, wifiDevice>>
    /\ UNCHANGED <<formVars, logVars, noticeVars, mutationVars, outsideView>>

\* onSerialDevice(newSerialDevice), of the SerialDeviceSelect rendered when
\* serialPortRequired
OnSerialDevice(newSerialDevice) ==
    /\ ConfigurationView
    /\ serialPortRequired
    /\ serialDevice' = newSerialDevice
    /\ UNCHANGED <<deviceTargets, wifiDevice, serialPortRequired, wifiDeviceRequired>>
    /\ UNCHANGED <<formVars, logVars, noticeVars, mutationVars, outsideView>>

\* onWifiDevice(newWifiDevice), of the WifiDeviceSelect rendered when
\* wifiDeviceRequired
OnWifiDevice(newWifiDevice) ==
    /\ ConfigurationView
    /\ wifiDeviceRequired
    /\ wifiDevice' = newWifiDevice
    /\ UNCHANGED <<deviceTargets, serialDevice, serialPortRequired, wifiDeviceRequired>>
    /\ UNCHANGED <<formVars, logVars, noticeVars, mutationVars, outsideView>>

TransportNext ==
    \/ /\ ConfigurationView
       /\ OnFirmwareVersionData([NewFirmwareVersionDataInput EXCEPT !.gitBranch = "master"])
    \/ \E list \in {TargetsCatalog, NoDeviceTargets} : TargetsResponse(list)
    \/ /\ ConfigurationView
       /\ \E target \in TransportTargets : OnDeviceTarget(target)
    \/ \E device \in {Null, "/dev/ttyUSB0"} : OnSerialDevice(device)
    \/ \E device \in {Null, "10.0.0.1"} : OnWifiDevice(device)
    \/ BuildButton
    \/ BuildAndFlashButton
    \/ BackButton
    \/ RetryButton
    \/ \E i \in 1..Len(mutations) : MutationCompletes(i)

TransportSpec == Init /\ [][TransportNext]_vars

(***************************************************************************)
(* ConfiguratorView: the devices found by multicast DNS.  The initial list *)
(* is the result of a query, the updates are events of a subscription.     *)
(***************************************************************************)
\* Number of events the subscription receives.
MaxDnsEvents == 3

DnsEventTypes == {"DEVICE_ADDED", "DEVICE_UPDATED", "DEVICE_REMOVED"}

\* MulticastDnsInformation: a device of either name, at either address.
DnsInformation == [name : DnsNames, ip : {"10.0.0.1", "10.0.0.2"}, target : {"T"}]

\* The results of the query: for every name, the item of the list, if any.
DnsLists ==
    {list \in [DnsNames -> DnsInformation \cup {NoDnsInformation}] :
       \A n \in DnsNames : list[n] # NoDnsInformation => list[n].name = n}

\* The effect on [multicastDnsDevicesListData]: every item of the list is
\* assigned to its name in the object that is the state.
ListArrivesInPlace(list) ==
    /\ multicastDnsDevices'
         = [n \in DnsNames
              |-> IF list[n] # NoDnsInformation THEN list[n] ELSE multicastDnsDevices[n]]

\* The result of useAvailableMulticastDnsDevicesListQuery arrives.
ListArrives(list) ==
    /\ ~multicastDnsDevicesListData
    /\ multicastDnsDevicesListData' = TRUE
    /\ ListArrivesInPlace(list)
    /\ dnsArrivals' = Append(dnsArrivals, [type |-> "LIST", data |-> NoDnsInformation,
                                           list |-> list])
    /\ UNCHANGED multicastDnsNewDevices
    /\ UNCHANGED outsideDns

\* onSubscriptionData of useMulticastDnsMonitorUpdatesSubscription
MulticastDnsMonitorUpdate(type, data) ==
    /\ Len(SelectSeq(dnsArrivals, LAMBDA a : a.type # "LIST")) < MaxDnsEvents
    /\ multicastDnsDevices'
         = IF type \in {"DEVICE_ADDED", "DEVICE_UPDATED"}
           THEN [multicastDnsDevices EXCEPT ![data.name] = data]
           ELSE [multicastDnsDevices EXCEPT ![data.name] = NoDnsInformation]
    /\ multicastDnsNewDevices'
         = IF type = "DEVICE_ADDED" THEN Append(multicastDnsNewDevices, data)
           ELSE multicastDnsNewDevices
    /\ dnsArrivals' = Append(dnsArrivals, [type |-> type, data |-> data,
                                           list |-> [n \in DnsNames |-> NoDnsInformation]])
    /\ UNCHANGED multicastDnsDevicesListData
    /\ UNCHANGED outsideDns

DnsNext ==
    \/ \E list \in DnsLists : ListArrives(list)
    \/ \E type \in DnsEventTypes, data \in DnsInformation :
         MulticastDnsMonitorUpdate(type, data)

DnsSpec == Init /\ [][DnsNext]_vars

(***************************************************************************)
(* ConfiguratorView: the notifications of the new devices.  Every device   *)
(* of multicastDnsNewDevices is shown with a Select button, and is closed  *)
(* by its user or by its timer.                                            *)
(***************************************************************************)
\* name.startsWith(prefix), for the names of the targets of the model; the
\* names are in upper case, as toUpperCase() makes them.
StartsWith(name, prefix) ==
    \E rest \in {"", "_UART", "_BF", "_WIFI", "_STLINK"} : name = prefix \o rest

\* onWifiDeviceChange: the first device with a target whose name starts with
\* the target of the DNS device; of it, the name of the first target flashed
\* through WIFI, or else of the first target; null when there is no device.
WifiTargetOf(list, targetName) ==
    LET has(i) == \E j \in 1..Len(list.devices[i].targets) :
                    StartsWith(list.devices[i].targets[j].name, targetName)
        having == {i \in 1..Len(list.devices) : has(i)}
    IN  IF having = {} THEN Null
        ELSE LET i == CHOOSE k \in having : \A m \in having : k <= m
                 targets == list.devices[i].targets
                 wifi == {j \in 1..Len(targets) : targets[j].flashingMethod = "WIFI"}
             IN  IF wifi = {} THEN targets[1].name
                 ELSE targets[CHOOSE k \in wifi : \A m \in wifi : k <= m].name

\* multicastDnsNewDevices.filter((d) => d !== dnsDevice), for the device at
\* position i: every item is an object of its own.
RemoveAt(list, i) == SubSeq(list, 1, i - 1) \o SubSeq(list, i + 1, Len(list))

\* handleClose of the notification at position i
HandleClose(i) ==
    /\ multicastDnsNewDevices' = RemoveAt(multicastDnsNewDevices, i)
    /\ UNCHANGED <<multicastDnsDevices, multicastDnsDevicesListData, dnsArrivals>>
    /\ UNCHANGED outsideDns

\* onWifiDeviceChange(deviceName).  With no entry of that name in the map,
\* dnsDevice.target throws a TypeError before any state is set: no step.
OnWifiDeviceChange(deviceName) ==
    /\ multicastDnsDevices[deviceName] # NoDnsInformation
    /\ SetDeviceTarget(WifiTargetOf(deviceTargets, multicastDnsDevices[deviceName].target))
    /\ wifiDevice' = multicastDnsDevices[deviceName].ip
    /\ UNCHANGED deviceTargetErrors
    /\ UNCHANGED <<dnsVars, serviceVars, validatorVars, deviceVars, instanceVars>>

\* The Select button of the notification at position i
SelectButton(i) == OnWifiDeviceChange(multicastDnsNewDevices[i].name)

NotificationNext ==
    \/ \E type \in DnsEventTypes, data \in DnsInformation :
         MulticastDnsMonitorUpdate(type, data)
    \/ \E i \in 1..Len(multicastDnsNewDevices) : HandleClose(i)
    \/ \E i \in 1..Len(multicastDnsNewDevices) : SelectButton(i)
    \/ OnFirmwareVersionData([NewFirmwareVersionDataInput EXCEPT !.gitBranch = "master"])
    \/ TargetsResponse(TargetsCatalog)

NotificationSpec == Init /\ [][NotificationNext]_vars

(***************************************************************************)
(* Several FirmwareService objects, each constructed with its own Mutex.   *)
(* The pipeline between tryLock and unlock is one step.                    *)
(***************************************************************************)
Instances == 1..MaxInstances
Callers == 1..MaxCallers

SharedMutex(i) == 1

\* this.mutex: the Mutex the constructor of instance i has created.
MutexOf(i) == i

\* buildFlashFirmware on instance i: busy if this.mutex is locked, or
\* tryLock and the pipeline starts.
InstanceCall(i, k) ==
    /\ instanceCalls[i][k] = "idle"
    /\ IF mutex[MutexOf(i)]
       THEN /\ instanceCalls' = [instanceCalls EXCEPT ![i][k] = "busy"]
            /\ UNCHANGED mutex
       ELSE /\ instanceCalls' = [instanceCalls EXCEPT ![i][k] = "running"]
            /\ mutex' = [mutex EXCEPT ![MutexOf(i)] = TRUE]
    /\ UNCHANGED outsideInstances

\* The pipeline of a call on instance i ends: finally, this.mutex.unlock().
InstanceReturn(i, k) ==
    /\ instanceCalls[i][k] = "running"
    /\ instanceCalls' = [instanceCalls EXCEPT ![i][k] = "returned"]
    /\ mutex' = [mutex EXCEPT ![MutexOf(i)] = FALSE]
    /\ UNCHANGED outsideInstances

\* The caller drops the result.
InstanceForget(i, k) ==
    /\ instanceCalls[i][k] \in {"busy", "returned"}
    /\ instanceCalls' = [instanceCalls EXCEPT ![i][k] = "idle"]
    /\ UNCHANGED <<mutex, outsideInstances>>

InstanceNext ==
    \E i \in Instances, k \in Callers :
        \/ InstanceCall(i, k)
        \/ InstanceReturn(i, k)
        \/ InstanceForget(i, k)

InstanceSpec == Init /\ [][InstanceNext]_vars

(***************************************************************************)
(* DeviceService: the device catalog, loaded by the constructor.           *)
(***************************************************************************)
\* Number of entries of devices.json.
MaxDevices == 2

\* The keys of the enums FlashingMethod, UserDefineKey and DeviceType.  The
\* value of a key is the key.
FlashingMethods == {"UART", "BetaflightPassthrough", "WIFI"}
UserDefineKeyNames == {"REGULATORY_DOMAIN_EU_868", "NO_SYNC_ON_ARM", "MY_BINDING_PHRASE"}
DeviceTypeNames == {"ExpressLRS"}

\* Enum[key as keyof typeof Enum]
EnumValue(enum, key) == IF key \in enum THEN key ELSE Undefined

\* !value, for a string property that may be missing.
Falsy(value) == value \in {Undefined, ""}

\* `${value}`
Template(value) == IF value = Undefined THEN "undefined" ELSE value

\* Entries of devices.json: two that are complete, and one for each way an
\* entry can be wrong.  A list property that is missing is the empty list.
DeviceA ==
    [name |-> "DeviceA", category |-> "2.4 GHz",
     targets |-> << [name |-> "A_via_UART", flashingMethod |-> "UART"],
                    [name |-> "A_via_WIFI", flashingMethod |-> "WIFI"] >>,
     userDefines |-> <<"NO_SYNC_ON_ARM", "MY_BINDING_PHRASE">>,
     wikiUrl |-> "https://wiki/a", deviceType |-> "ExpressLRS"]
DeviceB ==
    [name |-> "DeviceB", category |-> "900 MHz",
     targets |-> << [name |-> "B_via_BetaflightPassthrough",
                     flashingMethod |-> "BetaflightPassthrough"] >>,
     userDefines |-> <<"REGULATORY_DOMAIN_EU_868">>,
     wikiUrl |-> Undefined, deviceType |-> "ExpressLRS"]
CatalogEntries ==
    {DeviceA, DeviceB,
     [DeviceA EXCEPT !.name = Undefined],
     [DeviceA EXCEPT !.name = ""],
     [DeviceA EXCEPT !.category = Undefined],
     [DeviceA EXCEPT !.targets = <<>>],
     [DeviceA EXCEPT !.userDefines = <<>>],
     [DeviceA EXCEPT !.targets[2].name = Undefined],
     [DeviceA EXCEPT !.targets[2].flashingMethod = "Bluetooth"],
     [DeviceA EXCEPT !.userDefines[2] = "NOT_A_DEFINE"],
     [DeviceA EXCEPT !.deviceType = Undefined],
     [DeviceB EXCEPT !.deviceType = "Other"]}

RECURSIVE SeqsUpTo(_, _)
SeqsUpTo(S, n) ==
    IF n = 0 THEN {<<>>}
    ELSE SeqsUpTo(S, n - 1)
           \cup {Append(s, e) : s \in {t \in SeqsUpTo(S, n - 1) : Len(t) = n - 1}, e \in S}

\* No exception.
NoError == Undefined

\* The first exception a map over a list throws.
RECURSIVE FirstError(_)
FirstError(errors) ==
    IF errors = <<>> THEN NoError
    ELSE IF Head(errors) # NoError THEN Head(errors)
    ELSE FirstError(Tail(errors))

\* value.targets.map((item) => ...): what it throws for an item.
TargetError(item) ==
    IF Falsy(item.name) THEN "target must have a name property"
    ELSE IF EnumValue(FlashingMethods, item.flashingMethod) = Undefined
    THEN "error parsing target \"" \o Template(item.name) \o "\": \""
           \o Template(item.flashingMethod) \o "\" is not a valid flashing method"
    ELSE NoError

\* value.userDefines.map((item) => ...): what it throws for an item.
UserDefineError(item) ==
    IF EnumValue(UserDefineKeyNames, item) = Undefined
    THEN "\"" \o Template(item) \o "\" is not a valid User Define"
    ELSE NoError

\* What the try block throws for an entry.
DeviceError(value) ==
    IF Falsy(value.name) THEN "all devices must have a name property!"
    ELSE IF Falsy(value.category) THEN "category property is required!"
    ELSE IF Len(value.targets) = 0 THEN "devices must have a list of targets defined!"
    ELSE IF Len(value.userDefines) = 0
    THEN "devices must have a list of supported user defines!"
    ELSE IF FirstError([i \in 1..Len(value.targets) |-> TargetError(value.targets[i])])
              # NoError
    THEN FirstError([i \in 1..Len(value.targets) |-> TargetError(value.targets[i])])
    ELSE IF FirstError([i \in 1..Len(value.userDefines)
                          |-> UserDefineError(value.userDefines[i])]) # NoError
    THEN FirstError([i \in 1..Len(value.userDefines)
                       |-> UserDefineError(value.userDefines[i])])
    ELSE IF EnumValue(DeviceTypeNames, value.deviceType) = Undefined
    THEN "\"" \o Template(value.deviceType) \o "\" is not a valid device type"
    ELSE NoError

\* The Device the try block returns for an entry.
ParseDevice(value) ==
    [id |-> value.name, name |-> value.name, category |-> value.category,
     targets |-> [i \in 1..Len(value.targets)
                    |-> [name |-> value.targets[i].name,
                         flashingMethod |-> EnumValue(FlashingMethods,
                                                      value.targets[i].flashingMethod)]],
     userDefines |-> [i \in 1..Len(value.userDefines)
                        |-> EnumValue(UserDefineKeyNames, value.userDefines[i])],
     wikiUrl |-> value.wikiUrl,
     deviceType |-> EnumValue(DeviceTypeNames, value.deviceType)]

\* The message of the exception the catch block throws.
ParseErrorMessage(value, error) ==
    "Issue encountered while parsing device \"" \o Template(value.name)
      \o "\" in the device configuration file devices.json: " \o error

RECURSIVE SkipInvalid(_)
SkipInvalid(json) ==
    IF json = <<>> THEN <<>>
    ELSE IF DeviceError(Head(json)) # NoError THEN SkipInvalid(Tail(json))
    ELSE <<ParseDevice(Head(json))>> \o SkipInvalid(Tail(json))

LoadDevicesSkipping(json) ==
    [done |-> TRUE, threw |-> FALSE, message |-> "", devices |-> SkipInvalid(json)]

\* loadDevices(): DeviceJSON.devices.map(...) returns a device for every
\* entry, or throws at the first entry whose try block throws.
LoadDevices(json) ==
    LET failing == {i \in 1..Len(json) : DeviceError(json[i]) # NoError}
    IN  IF failing = {}
        THEN [done |-> TRUE, threw |-> FALSE, message |-> "",
              devices |-> [i \in 1..Len(json) |-> ParseDevice(json[i])]]
        ELSE LET first == CHOOSE i \in failing : \A j \in failing : i <= j
             IN  [done |-> TRUE, threw |-> TRUE,
                  message |-> ParseErrorMessage(json[first], DeviceError(json[first])),
                  devices |-> <<>>]

DeviceInit ==
    /\ ServiceInit
    /\ ValidatorIdle
    /\ ViewInit
    /\ InstancesInit
    /\ deviceJSON \in SeqsUpTo(CatalogEntries, MaxDevices)
    /\ devices = NotLoaded

\* new DeviceService(logger): this.devices = this.loadDevices()
NewDeviceService ==
    /\ ~devices.done
    /\ devices' = LoadDevices(deviceJSON)
    /\ UNCHANGED <<deviceJSON, outsideDevices>>

DeviceNext == NewDeviceService

DeviceSpec == DeviceInit /\ [][DeviceNext]_vars

(***************************************************************************)
(* What the claims speak of.                                               *)
(***************************************************************************)
Running(c) == pc[c] \in Suspended
Returned(c) == pc[c] = "returned"
InFlight == {c \in Calls : Running(c)}

\* The steps call c has published, in order.
StepsOf(c) ==
    LET mine == SelectSeq(progress, LAMBDA ev : ev.call = c)
    IN  [i \in 1..Len(mine) |-> mine[i].step]

\* The backend operations call c has invoked, in order.
OpsOf(c) == SelectSeq(ops, LAMBDA o : o.call = c)
OpNames(log) == [i \in 1..Len(log) |-> log[i].op]
Invoked(c, op) == \E i \in 1..Len(ops) : ops[i].call = c /\ ops[i].op = op

StepOrder ==
    <<"VERIFYING_BUILD_SYSTEM", "DOWNLOADING_FIRMWARE", "BUILDING_USER_DEFINES",
      "BUILDING_FIRMWARE", "FLASHING_FIRMWARE">>

IsPrefix(s, t) == Len(s) <= Len(t) /\ \A i \in 1..Len(s) : s[i] = t[i]

(***************************************************************************)
(* C1: at most one call executes the pipeline body at a time, a call in    *)
(* the body holds the guard, and a call enters the body only in a step     *)
(* that finds the guard free and leaves it held (check and lock are one    *)
(* step, with no suspension between them).                                 *)
(***************************************************************************)
C1_SingleFlight ==
    /\ [](Cardinality(InFlight) <= 1 /\ (InFlight # {} => locked))
    /\ [][\A c \in Calls :
            (pc[c] = "idle" /\ Running(c)') => (~locked /\ locked')]_vars

C1_Witness ==
    \E c, d \in Calls :
        /\ Running(c)
        /\ Returned(d)
        /\ result[d] = BusyResult

(***************************************************************************)
(* C2: the guard is never left held: it is held only while an accepted     *)
(* call is in flight, whichever way the earlier calls ended, and a call    *)
(* is rejected as busy only while another call is in flight.               *)
(***************************************************************************)
C2_GuardReleased ==
    /\ [](locked => InFlight # {})
    /\ [][\A c \in Calls :
            (Running(c) /\ Returned(c)') => ~locked']_vars
    /\ [][\A c \in Calls :
            (pc[c] = "idle" /\ Returned(c)') => InFlight # {}]_vars

C2_Witness ==
    \E c \in Calls :
        /\ Returned(c)
        /\ caught[c] # Undefined
        /\ ~locked

(***************************************************************************)
(* C3: a call that arrives while the guard is held returns in the same     *)
(* step with success = false and GenericError; that step publishes         *)
(* nothing, invokes nothing, leaves the guard held and leaves every other  *)
(* call's frame as it was.                                                 *)
(***************************************************************************)
C3_BusyRejected ==
    [][\A c \in Calls :
        (pc[c] = "idle" /\ pc'[c] # "idle" /\ locked) =>
            /\ Returned(c)'
            /\ ~result'[c].success
            /\ result'[c].errorType = "GenericError"
            /\ locked'
            /\ UNCHANGED <<progress, logs, ops>>
            /\ \A d \in Calls \ {c} :
                 /\ pc'[d] = pc[d]
                 /\ params'[d] = params[d]
                 /\ firmwarePath'[d] = firmwarePath[d]
                 /\ userDefines'[d] = userDefines[d]
                 /\ caught'[d] = caught[d]
                 /\ result'[d] = result[d]]_vars

C3_Witness ==
    \E c, d \in Calls :
        /\ pc[c] = "compile"
        /\ Returned(d)
        /\ result[d].errorType = "GenericError"
        /\ progress # <<>>

(***************************************************************************)
(* C4: a run that ends in success has published exactly the four steps up  *)
(* to BUILDING_FIRMWARE for a Build job, and those four followed by        *)
(* FLASHING_FIRMWARE for a BuildAndFlash job, in order, each once.         *)
(***************************************************************************)
C4_ProgressOfSuccess ==
    \A c \in Calls :
        (Returned(c) /\ result[c].success) =>
            StepsOf(c) = IF params[c].type = "Build"
                         THEN SubSeq(StepOrder, 1, 4) ELSE StepOrder

C4_Witness ==
    \E c \in Calls :
        /\ Returned(c)
        /\ result[c].success
        /\ params[c].type = "BuildAndFlash"
        /\ Len(StepsOf(c)) = 5

(***************************************************************************)
(* C5: at every moment the steps a call has published are a prefix of the  *)
(* fixed order of the five steps, and a Build job has not published        *)
(* FLASHING_FIRMWARE.                                                      *)
(***************************************************************************)
C5_ProgressPrefix ==
    \A c \in Calls :
        /\ IsPrefix(StepsOf(c), StepOrder)
        /\ (pc[c] # "idle" /\ params[c].type = "Build") =>
               \A i \in 1..Len(StepsOf(c)) : StepsOf(c)[i] # "FLASHING_FIRMWARE"

C5_Witness ==
    \E c \in Calls :
        /\ Returned(c)
        /\ ~result[c].success
        /\ params[c].type = "Build"
        /\ Len(StepsOf(c)) = 3

(***************************************************************************)
(* C6: the backend operations of a run are invoked in the order            *)
(* checkPython, checkCore, install, findGitExecutable, checkoutTag, the    *)
(* compatibility check, build, then getFirmwareBinPath or flash, each at   *)
(* most once; install is invoked only right after a failed checkCore; no   *)
(* operation follows one that failed or threw (checkCore excepted, which   *)
(* install follows); an operation that has not returned keeps the guard    *)
(* held; and a run that succeeds has invoked all the operations of its     *)
(* request.  getPlatformioState, which the pipeline reads before build,    *)
(* is not one of the operations the claim orders.                          *)
(***************************************************************************)
OpRank(op) ==
    CASE op = "checkPython" -> 1
      [] op = "checkCore" -> 2
      [] op = "install" -> 3
      [] op = "findGitExecutable" -> 4
      [] op = "checkoutTag" -> 5
      [] op = "checkDefaultUserDefinesCompatibilityAtPath" -> 6
      [] op = "build" -> 7
      [] op = "getFirmwareBinPath" -> 8
      [] op = "flash" -> 8

OrderedOpsOf(c) == SelectSeq(OpsOf(c), LAMBDA o : o.op # "getPlatformioState")

ExpectedOps(p, installed) ==
    <<"checkPython", "checkCore">>
        \o (IF installed THEN <<"install">> ELSE <<>>)
        \o <<"findGitExecutable">>
        \o (IF p.firmware.source # "Local" THEN <<"checkoutTag">> ELSE <<>>)
        \o (IF p.userDefinesMode = "UserInterface"
            THEN <<"checkDefaultUserDefinesCompatibilityAtPath">> ELSE <<>>)
        \o <<"build">>
        \o (IF p.type = "Build" THEN <<"getFirmwareBinPath">> ELSE <<"flash">>)

C6_OperationOrder ==
    \A c \in Calls :
        LET all == OpsOf(c)
            listed == OrderedOpsOf(c)
        IN  /\ \A i, j \in 1..Len(listed) :
                 i < j => OpRank(listed[i].op) < OpRank(listed[j].op)
            /\ \A i \in 1..Len(all) :
                 all[i].op = "install" =>
                    /\ i > 1
                    /\ all[i-1].op = "checkCore"
                    /\ all[i-1].out.kind = "returned"
                    /\ ~all[i-1].out.success
            /\ \A i \in 1..Len(all) :
                 i < Len(all) =>
                    /\ all[i].out.kind = "returned"
                    /\ all[i].out.success \/ all[i].op = "checkCore"
                    /\ (all[i].op = "checkCore" /\ ~all[i].out.success)
                          => all[i+1].op = "install"
            /\ (\E i \in 1..Len(all) : all[i].out.kind = "pending") =>
                 (Running(c) /\ locked)
            /\ (Returned(c) /\ result[c].success) =>
                 OpNames(listed) = ExpectedOps(params[c], Invoked(c, "install"))

C6_Witness ==
    \E c \in Calls :
        /\ Returned(c)
        /\ result[c].success
        /\ Invoked(c, "install")
        /\ Invoked(c, "checkoutTag")
        /\ Invoked(c, "flash")

(***************************************************************************)
(* C7: a result that buildFlashFirmware returned is either a success with  *)
(* no message and no errorType, or a failure with a message and an         *)
(* errorType and no firmwareBinPath.                                       *)
(***************************************************************************)
C7_ResultShape ==
    \A c \in Calls :
        Returned(c) =>
            \/ /\ result[c].success
               /\ result[c].message = Undefined
               /\ result[c].errorType = Undefined
            \/ /\ ~result[c].success
               /\ result[c].message # Undefined
               /\ result[c].errorType # Undefined
               /\ result[c].firmwareBinPath = Undefined

C7_Witness ==
    \E c \in Calls :
        /\ Returned(c)
        /\ result[c].errorType = "FlashError"
        /\ result[c].message \in Stderrs

(***************************************************************************)
(* C8: when a step of an accepted run throws (an awaited publish, a        *)
(* backend operation other than the git lookup, the materialization of     *)
(* the defines, getFirmwareBinPath), the call returns, in that step, the   *)
(* result success = false, GenericError, with the message "Error: "        *)
(* followed by the exception's description.                                *)
(***************************************************************************)
C8_ExceptionsCaught ==
    /\ \A c \in Calls :
         caught[c] # Undefined =>
            /\ Returned(c)
            /\ result[c] = BuildFlashFirmwareResult(FALSE, "Error: " \o caught[c],
                                                    "GenericError", Undefined)
    /\ \A i \in 1..Len(ops) :
         (ops[i].out.kind = "threw" /\ ops[i].op # "findGitExecutable") =>
            /\ Returned(ops[i].call)
            /\ caught[ops[i].call] = ops[i].out.value

C8_Witness ==
    \E c \in Calls, i \in 1..Len(ops) :
        /\ Returned(c)
        /\ ops[i].call = c
        /\ ops[i].op = "build"
        /\ ops[i].out.kind = "threw"
        /\ result[c].errorType = "GenericError"

(***************************************************************************)
(* C9: when build reports success = false, the call returns success =      *)
(* false, BuildError, with the message equal to the captured stderr;       *)
(* neither getFirmwareBinPath nor flash is invoked, FLASHING_FIRMWARE is   *)
(* not published and the guard is free.                                    *)
(***************************************************************************)
CompileFailed(i) ==
    /\ ops[i].op = "build"
    /\ ops[i].out.kind = "returned"
    /\ ~ops[i].out.success

C9_CompileFailure ==
    \A i \in 1..Len(ops) :
        CompileFailed(i) =>
            LET c == ops[i].call
            IN  /\ Returned(c)
                /\ result[c] = BuildFlashFirmwareResult(FALSE, ops[i].out.stderr,
                                                        "BuildError", Undefined)
                /\ ~Invoked(c, "getFirmwareBinPath")
                /\ ~Invoked(c, "flash")
                /\ \A k \in 1..Len(StepsOf(c)) : StepsOf(c)[k] # "FLASHING_FIRMWARE"
                /\ ~locked

C9_Witness ==
    \E i \in 1..Len(ops) :
        /\ CompileFailed(i)
        /\ ops[i].out.stderr = "undefined reference"
        /\ params[ops[i].call].type = "BuildAndFlash"

(***************************************************************************)
(* C10: a Build job whose build succeeded has returned; it asked the       *)
(* backend for the binary path of (target, resolved source path), and if   *)
(* the backend reported a path the result is success = true with that      *)
(* path; flash is not invoked and the last step published is               *)
(* BUILDING_FIRMWARE.                                                      *)
(***************************************************************************)
CompileSucceeded(i) ==
    /\ ops[i].op = "build"
    /\ ops[i].out.kind = "returned"
    /\ ops[i].out.success

\* The source path of call c: localPath, or the path checkoutTag returned.
ResolvedPath(c) ==
    IF params[c].firmware.source = "Local"
    THEN params[c].firmware.localPath
    ELSE LET i == CHOOSE i \in 1..Len(ops) :
                     ops[i].call = c /\ ops[i].op = "checkoutTag"
         IN  ops[i].out.value

C10_BuildOnly ==
    \A i \in 1..Len(ops) :
        (CompileSucceeded(i) /\ params[ops[i].call].type = "Build") =>
            LET c == ops[i].call
            IN  /\ Returned(c)
                /\ ~Invoked(c, "flash")
                /\ StepsOf(c)[Len(StepsOf(c))] = "BUILDING_FIRMWARE"
                /\ \E j \in 1..Len(ops) :
                     /\ ops[j].call = c
                     /\ ops[j].op = "getFirmwareBinPath"
                     /\ ops[j].args = <<params[c].target, ResolvedPath(c)>>
                     /\ ops[j].out.kind = "returned" =>
                          result[c] = BuildFlashFirmwareResult(TRUE, Undefined, Undefined,
                                                               ops[j].out.value)

C10_Witness ==
    \E c \in Calls :
        /\ Returned(c)
        /\ params[c].type = "Build"
        /\ params[c].firmware.source = "GitTag"
        /\ params[c].userDefinesMode = "UserInterface"
        /\ result[c].success
        /\ result[c].firmwareBinPath
             = GetFirmwareBinPath(params[c].target, "/firmwares/ExpressLRS")
        /\ StepsOf(c)[Len(StepsOf(c))] = "BUILDING_FIRMWARE"

\* Frame c holds a call that entered the pipeline body.
Accepted(c) == pc[c] # "idle" /\ params[c].type # Undefined

\* Every operation call c invoked has settled with a success.
AllOperationsSucceeded(c) ==
    \A i \in 1..Len(ops) :
        ops[i].call = c => ops[i].out.kind = "returned" /\ ops[i].out.success

(***************************************************************************)
(* C11: the ref handed to checkoutTag is the field of the request that     *)
(* matches the source variant: gitTag for GitTag, gitBranch for GitBranch, *)
(* gitCommit for GitCommit.                                                *)
(***************************************************************************)
MatchingRef(firmware) ==
    CASE firmware.source = "GitTag" -> firmware.gitTag
      [] firmware.source = "GitBranch" -> firmware.gitBranch
      [] firmware.source = "GitCommit" -> firmware.gitCommit
      [] OTHER -> Undefined

C11_RefMatchesVariant ==
    \A i \in 1..Len(ops) :
        ops[i].op = "checkoutTag" =>
            ops[i].args = <<GitRepoUrl, MatchingRef(params[ops[i].call].firmware)>>

(***************************************************************************)
(* C12: a call whose source descriptor validateFirmwareVersionData accepts *)
(* with no error never ends in the unsupported-source GenericError, and    *)
(* returns success = true when every operation it invoked succeeded, its   *)
(* defines mode is supported and no publish threw.                         *)
(***************************************************************************)
ValidatedSource(c) ==
    LET v == ValidateFirmwareVersionData(params[c].firmware)
    IN  ~v.threw /\ v.errors = <<>>

C12_ValidatedSourceDispatched ==
    \A c \in Calls :
        (Accepted(c) /\ Returned(c) /\ ValidatedSource(c)) =>
            /\ caught[c] # UnsupportedSourceError(params[c].firmware.source)
            /\ (/\ AllOperationsSucceeded(c)
                /\ params[c].userDefinesMode \in {"Manual", "UserInterface"}
                /\ caught[c] \notin Exceptions) => result[c].success

(***************************************************************************)
(* C13: a Local build invokes neither findGitExecutable nor checkoutTag,   *)
(* builds from localPath as given, and never returns GitDependencyError.   *)
(***************************************************************************)
C13_LocalSkipsGit ==
    \A c \in Calls :
        (Accepted(c) /\ params[c].firmware.source = "Local") =>
            /\ ~Invoked(c, "findGitExecutable")
            /\ ~Invoked(c, "checkoutTag")
            /\ firmwarePath[c] \in {"", params[c].firmware.localPath}
            /\ Returned(c) => result[c].errorType # "GitDependencyError"

(***************************************************************************)
(* C14: flash is invoked with the target, the resolved source path and     *)
(* the serialDevice of the request; when it reports success = false the    *)
(* call returns success = false, FlashError, with the message equal to     *)
(* the captured stderr.                                                    *)
(***************************************************************************)
C14_FlashArguments ==
    \A i \in 1..Len(ops) :
        ops[i].op = "flash" =>
            LET c == ops[i].call
            IN  /\ ops[i].args = <<params[c].target, ResolvedPath(c), params[c].serialDevice>>
                /\ (ops[i].out.kind = "returned" /\ ~ops[i].out.success) =>
                     /\ Returned(c)
                     /\ result[c] = BuildFlashFirmwareResult(FALSE, ops[i].out.stderr,
                                                             "FlashError", Undefined)

\* The part of C14 the service keeps: the arguments it does hand to flash
\* and the FlashError result.
FlashFailureReported ==
    \A i \in 1..Len(ops) :
        ops[i].op = "flash" =>
            LET c == ops[i].call
            IN  /\ ops[i].args = <<params[c].target, ResolvedPath(c)>>
                /\ (ops[i].out.kind = "returned" /\ ~ops[i].out.success) =>
                     /\ Returned(c)
                     /\ result[c] = BuildFlashFirmwareResult(FALSE, ops[i].out.stderr,
                                                             "FlashError", Undefined)

\* Operation i is an invocation of op that reported success = false.
ReportedFailure(i, op) ==
    /\ ops[i].op = op
    /\ ops[i].out.kind = "returned"
    /\ ~ops[i].out.success

\* Operation i is an invocation of op that reported success = true.
ReportedSuccess(i, op) ==
    /\ ops[i].op = op
    /\ ops[i].out.kind = "returned"
    /\ ops[i].out.success

Published(c, step) == \E k \in 1..Len(StepsOf(c)) : StepsOf(c)[k] = step

(***************************************************************************)
(* C15: when checkPython reports success = false the call has returned     *)
(* success = false, PythonDependencyError, with the message                *)
(* "Python dependency error: <stderr> <stdout>"; checkPython is the only   *)
(* operation it invoked and VERIFYING_BUILD_SYSTEM the only step it        *)
(* published.                                                              *)
(***************************************************************************)
C15_PythonFailure ==
    \A i \in 1..Len(ops) :
        ReportedFailure(i, "checkPython") =>
            LET c == ops[i].call
            IN  /\ Returned(c)
                /\ result[c] = BuildFlashFirmwareResult(FALSE,
                       "Python dependency error: " \o ops[i].out.stderr \o " "
                           \o ops[i].out.stdout,
                       "PythonDependencyError", Undefined)
                /\ OpNames(OpsOf(c)) = <<"checkPython">>
                /\ StepsOf(c) = <<"VERIFYING_BUILD_SYSTEM">>

C15_Witness ==
    \E c \in Calls :
        /\ Returned(c)
        /\ result[c].errorType = "PythonDependencyError"
        /\ result[c].message = "Python dependency error: undefined reference out"
        /\ \E i \in 1..Len(ops) : ops[i].call = c /\ ReportedFailure(i, "checkPython")

(***************************************************************************)
(* C16: install is invoked only after checkCore reported failure, and a    *)
(* call whose checkCore reported failure invokes install as soon as the    *)
(* notice is published (unless publishing the notice throws); a failed     *)
(* install returns PlatformioDependencyError with the message              *)
(* "platformio error: <stderr> <stdout>" and nothing further is invoked;   *)
(* after a successful install the next operation is findGitExecutable,     *)
(* as it is after a successful checkCore.                                  *)
(***************************************************************************)
C16_InstallOnDemand ==
    \A i \in 1..Len(ops) :
        LET c == ops[i].call
        IN  /\ ops[i].op = "install" =>
                 \E j \in 1..(i - 1) : ops[j].call = c /\ ReportedFailure(j, "checkCore")
            /\ ReportedFailure(i, "checkCore") =>
                 \/ pc[c] = "logInstallNotice"
                 \/ Invoked(c, "install")
                 \/ Returned(c) /\ caught[c] \in Exceptions
            /\ ReportedSuccess(i, "checkCore") =>
                 /\ ~Invoked(c, "install")
                 /\ IsPrefix(<<"checkPython", "checkCore", "findGitExecutable">>,
                             OpNames(OpsOf(c)))
            /\ ReportedFailure(i, "install") =>
                 /\ Returned(c)
                 /\ result[c] = BuildFlashFirmwareResult(FALSE,
                        "platformio error: " \o ops[i].out.stderr \o " "
                            \o ops[i].out.stdout,
                        "PlatformioDependencyError", Undefined)
                 /\ OpNames(OpsOf(c)) = <<"checkPython", "checkCore", "install">>
                 /\ StepsOf(c) = <<"VERIFYING_BUILD_SYSTEM">>
            /\ ReportedSuccess(i, "install") =>
                 IsPrefix(<<"checkPython", "checkCore", "install", "findGitExecutable">>,
                          OpNames(OpsOf(c)))

C16_Witness ==
    \E c \in Calls, i, j \in 1..Len(ops) :
        /\ ops[i].call = c /\ ReportedFailure(i, "checkCore")
        /\ ops[j].call = c /\ ReportedSuccess(j, "install")
        /\ Published(c, "DOWNLOADING_FIRMWARE")

(***************************************************************************)
(* C17: when findGitExecutable throws, the call has returned success =     *)
(* false, GitDependencyError, with the text of the error as the message;   *)
(* DOWNLOADING_FIRMWARE is not published and checkoutTag, build and flash  *)
(* are not invoked.                                                        *)
(***************************************************************************)
C17_GitLookupFailure ==
    \A i \in 1..Len(ops) :
        (ops[i].op = "findGitExecutable" /\ ops[i].out.kind = "threw") =>
            LET c == ops[i].call
            IN  /\ Returned(c)
                /\ result[c] = BuildFlashFirmwareResult(FALSE, ops[i].out.value,
                                                        "GitDependencyError", Undefined)
                /\ ~Published(c, "DOWNLOADING_FIRMWARE")
                /\ ~Invoked(c, "checkoutTag")
                /\ ~Invoked(c, "build")
                /\ ~Invoked(c, "flash")

C17_Witness ==
    \E i \in 1..Len(ops) :
        /\ ops[i].op = "findGitExecutable"
        /\ ops[i].out = Threw("Error: EACCES")
        /\ result[ops[i].call].message = "Error: EACCES"
        /\ params[ops[i].call].firmware.source = "GitBranch"

(***************************************************************************)
(* C18: in UserInterface mode the compatibility check is invoked, before   *)
(* the platformio state is read, with the resolved source path and the     *)
(* keys of the enabled defines in input order; when it reports             *)
(* incompatibility the call has returned success = false, BuildError,      *)
(* with a message naming the reported keys, BUILDING_FIRMWARE is not       *)
(* published and build is not invoked.                                     *)
(***************************************************************************)
RECURSIVE KeysOfEnabled(_)
KeysOfEnabled(defs) ==
    IF defs = <<>> THEN <<>>
    ELSE IF Head(defs).enabled
         THEN <<Head(defs).key>> \o KeysOfEnabled(Tail(defs))
         ELSE KeysOfEnabled(Tail(defs))

C18_CompatibilityCheck ==
    \A c \in Calls :
        (Accepted(c) /\ params[c].userDefinesMode = "UserInterface") =>
            /\ Invoked(c, "getPlatformioState") =>
                 Invoked(c, "checkDefaultUserDefinesCompatibilityAtPath")
            /\ \A i \in 1..Len(ops) :
                 (ops[i].call = c
                    /\ ops[i].op = "checkDefaultUserDefinesCompatibilityAtPath") =>
                     /\ ops[i].args
                          = <<ResolvedPath(c), KeysOfEnabled(params[c].userDefines)>>
                     /\ (ops[i].out.kind = "returned" /\ ~ops[i].out.success) =>
                          /\ Returned(c)
                          /\ result[c] = BuildFlashFirmwareResult(FALSE,
                                 "Downloaded firmware is not compatible with the "
                                     \o "following user defines: "
                                     \o JoinKeys(ops[i].out.keys),
                                 "BuildError", Undefined)
                          /\ ~Published(c, "BUILDING_FIRMWARE")
                          /\ ~Invoked(c, "build")

C18_Witness ==
    \E c \in Calls :
        /\ Accepted(c)
        /\ Returned(c)
        /\ params[c].userDefinesMode = "UserInterface"
        /\ params[c].userDefines = UserDefinesA
        /\ result[c].errorType = "BuildError"
        /\ result[c].message
             = "Downloaded firmware is not compatible with the following user defines: "
                 \o "REGULATORY_DOMAIN_EU_868,MY_BINDING_PHRASE"
        /\ \E i \in 1..Len(ops) :
             /\ ops[i].call = c
             /\ ops[i].op = "checkDefaultUserDefinesCompatibilityAtPath"
             /\ ops[i].args[2] = <<"REGULATORY_DOMAIN_EU_868", "MY_BINDING_PHRASE">>

(***************************************************************************)
(* C19: in Manual mode the compatibility check is never invoked and the    *)
(* text handed to build is userDefinesTxt; in UserInterface mode the text  *)
(* handed to build is the output of UserDefinesTxtFactory.build for        *)
(* userDefines, whatever userDefinesTxt holds.                             *)
(***************************************************************************)
C19_UserDefinesText ==
    \A c \in Calls :
        Accepted(c) =>
            /\ params[c].userDefinesMode = "Manual" =>
                 ~Invoked(c, "checkDefaultUserDefinesCompatibilityAtPath")
            /\ \A i \in 1..Len(ops) :
                 (ops[i].call = c /\ ops[i].op = "build") =>
                     /\ params[c].userDefinesMode = "Manual" =>
                          ops[i].args[2] = params[c].userDefinesTxt
                     /\ params[c].userDefinesMode = "UserInterface" =>
                          ops[i].args[2] = UserDefinesTxtFactoryBuild(params[c].userDefines)

C19_Witness ==
    \E c \in Calls, i \in 1..Len(ops) :
        /\ ops[i].call = c
        /\ ops[i].op = "build"
        /\ params[c].userDefinesMode = "Manual"
        /\ params[c].firmware.source = "Local"
        /\ ops[i].args = <<"TARGET_A", "#manual", "/x">>

\* The text a UserInterface build hands to build, where it differs from
\* userDefinesTxt.
MaterializedTextBuilt ==
    \E c \in Calls, i \in 1..Len(ops) :
        /\ ops[i].call = c
        /\ ops[i].op = "build"
        /\ params[c].userDefinesMode = "UserInterface"
        /\ params[c].userDefines = UserDefinesA
        /\ ops[i].args[2] = "-DREGULATORY_DOMAIN_EU_868\n-DMY_BINDING_PHRASE=phrase"
        /\ ops[i].args[2] # params[c].userDefinesTxt

(***************************************************************************)
(* C20: when every awaited operation settles, a call that entered the      *)
(* pipeline eventually returns a result and a held guard eventually        *)
(* becomes free; until it returns, no step (a rejected concurrent call     *)
(* included) takes the call out of the pipeline or replaces its request.   *)
(***************************************************************************)
Resulted(c) == Returned(c) /\ result[c] # NoResult

C20_Termination ==
    /\ \A c \in Calls : Running(c) ~> Resulted(c)
    /\ locked ~> ~locked
    /\ [][\A c \in Calls :
            Running(c) => /\ Running(c)' \/ Resulted(c)'
                          /\ params'[c] = params[c]]_vars

C20_Witness ==
    \E c, d \in Calls :
        /\ Accepted(c)
        /\ Resulted(c)
        /\ result[c].success
        /\ params[c].type = "BuildAndFlash"
        /\ Returned(d)
        /\ result[d] = BusyResult
        /\ ~locked

(***************************************************************************)
(* C21: for a known variant validateFirmwareVersionData returns, with one  *)
(* error when the field the variant requires is empty (for GitPullRequest: *)
(* the pull request is null or its headCommitHash is empty) and with none  *)
(* otherwise; descriptors of the same variant that agree on the required   *)
(* field get the same result, whatever their other fields hold.            *)
(***************************************************************************)
RequiredField(d) ==
    CASE d.source = "Local" -> d.localPath
      [] d.source = "GitCommit" -> d.gitCommit
      [] d.source = "GitBranch" -> d.gitBranch
      [] d.source = "GitTag" -> d.gitTag
      [] d.source = "GitPullRequest" -> d.gitPullRequest.headCommitHash

C21_ValidatorResult ==
    (validation.done /\ descriptor.source \in FirmwareSources) =>
        /\ ~validation.threw
        /\ Len(validation.errors) = IF RequiredField(descriptor) = "" THEN 1 ELSE 0
        /\ \A d \in Descriptors :
             (d.source = descriptor.source
                /\ RequiredField(d) = RequiredField(descriptor)) =>
                 ValidateFirmwareVersionData(d)
                     = [threw |-> validation.threw, errors |-> validation.errors]

C21_Witness ==
    /\ validation.done
    /\ descriptor.source = "GitBranch"
    /\ descriptor.gitBranch = ""
    /\ descriptor.gitTag = "v1.0"
    /\ descriptor.gitCommit = "abc123"
    /\ validation.errors = <<"Git branch is not selected">>

\* A source outside the enumeration makes the validator throw.
UnknownSourceThrows ==
    (validation.done /\ descriptor.source \in UnknownSources) => validation.threw

(***************************************************************************)
(* C22: a step of sendJob either sends the build mutation and switches the *)
(* view to Compiling, or sends nothing and leaves viewState as it is.  It  *)
(* sends only if firmwareVersionData is not null and validates with no     *)
(* error, a device target is selected and no list of errors is set, and    *)
(* it always sends then in Manual mode; when it does not send, the error   *)
(* is in the list of the first check that failed: the firmware source,     *)
(* the device target, or (UserInterface mode) the user defines.            *)
(***************************************************************************)
SourceAccepted ==
    /\ firmwareVersionData # NoFirmwareVersionData
    /\ ~ValidateFirmwareVersionData(firmwareVersionData).threw
    /\ ValidateFirmwareVersionData(firmwareVersionData).errors = <<>>

C22_SendJobGate ==
    [][\A type \in JobTypes :
         SendJob(type) =>
           LET sent == /\ requests' = Append(requests,
                                             Request("buildFlashFirmware",
                                                     firmwareVersionData,
                                                     deviceTarget, type))
                       /\ viewState' = ViewStateCompiling
               rejected == requests' = requests /\ viewState' = viewState
           IN  /\ sent \/ rejected
               /\ sent => /\ SourceAccepted
                          /\ deviceTarget # Null
                          /\ firmwareVersionErrors' = <<>>
                          /\ deviceTargetErrors' = <<>>
                          /\ deviceOptionsValidationErrors' = <<>>
               /\ (/\ SourceAccepted
                   /\ deviceTarget # Null
                   /\ deviceOptionsFormData.userDefinesMode = "Manual") => sent
               /\ rejected =>
                    IF ~SourceAccepted
                    THEN /\ firmwareVersionErrors' # <<>>
                         /\ deviceTargetErrors' = <<>>
                         /\ deviceOptionsValidationErrors' = <<>>
                    ELSE IF deviceTarget = Null
                    THEN /\ firmwareVersionErrors' = <<>>
                         /\ deviceTargetErrors' # <<>>
                         /\ deviceOptionsValidationErrors' = <<>>
                    ELSE /\ deviceOptionsFormData.userDefinesMode = "UserInterface"
                         /\ firmwareVersionErrors' = <<>>
                         /\ deviceTargetErrors' = <<>>
                         /\ deviceOptionsValidationErrors' # <<>>]_vars

C22_Witness ==
    /\ \E i \in 1..Len(requests) : requests[i].kind = "buildFlashFirmware"
    /\ viewState = ViewStateConfiguration
    /\ firmwareVersionData = NewFirmwareVersionDataInput
    /\ firmwareVersionErrors = <<"Git branch is not selected">>

\* sendJob can be refused by each of its three checks.
SendJobRefusedByUserDefines ==
    /\ viewState = ViewStateConfiguration
    /\ deviceOptionsValidationErrors # <<>>
    /\ SourceAccepted
    /\ deviceTarget # Null

(***************************************************************************)
(* C23: every request the view has sent to the backend (the query for the  *)
(* available targets, the query for the device options, the build          *)
(* mutation) carries a descriptor that validateFirmwareVersionData accepts. *)
(***************************************************************************)
C23_NoRequestForInvalidSource ==
    \A i \in 1..Len(requests) :
        LET v == ValidateFirmwareVersionData(requests[i].firmware)
        IN  ~v.threw /\ v.errors = <<>>

\* The part of C23 the view keeps: the device options query and the build
\* mutation are sent for validated descriptors only.
OptionsAndBuildForValidSource ==
    \A i \in 1..Len(requests) :
        requests[i].kind \in {"targetDeviceOptions", "buildFlashFirmware"} =>
            LET v == ValidateFirmwareVersionData(requests[i].firmware)
            IN  ~v.threw /\ v.errors = <<>>

\* An entry of the catalog every property of which is as loadDevices requires.
WellFormed(value) ==
    /\ value.name \notin {Undefined, ""}
    /\ value.category \notin {Undefined, ""}
    /\ Len(value.targets) >= 1
    /\ \A i \in 1..Len(value.targets) :
         /\ value.targets[i].name \notin {Undefined, ""}
         /\ value.targets[i].flashingMethod \in FlashingMethods
    /\ Len(value.userDefines) >= 1
    /\ \A i \in 1..Len(value.userDefines) : value.userDefines[i] \in UserDefineKeyNames
    /\ value.deviceType \in DeviceTypeNames

\* The device loaded for an entry carries the entry's properties.
LoadedFrom(device, value) ==
    /\ device.id = device.name
    /\ device.name = value.name /\ device.name \notin {Undefined, ""}
    /\ device.category = value.category /\ device.category \notin {Undefined, ""}
    /\ Len(device.targets) = Len(value.targets) /\ Len(device.targets) >= 1
    /\ \A i \in 1..Len(device.targets) :
         /\ device.targets[i].name = value.targets[i].name
         /\ device.targets[i].flashingMethod = value.targets[i].flashingMethod
         /\ device.targets[i].flashingMethod \in FlashingMethods
    /\ device.userDefines = value.userDefines /\ Len(device.userDefines) >= 1
    /\ \A i \in 1..Len(device.userDefines) : device.userDefines[i] \in UserDefineKeyNames
    /\ device.deviceType = value.deviceType /\ device.deviceType \in DeviceTypeNames
    /\ device.wikiUrl = value.wikiUrl

\* C24: loadDevices is all-or-nothing.  Either it returns one Device for
\* every entry of the catalog, in the order of the catalog, each with a name
\* and a category that are not empty, id equal to name, at least one target,
\* every target with a valid flashing method, at least one user define, every
\* one a valid key, and a valid device type; or it throws, no device is
\* returned, and the message holds the name property of the first entry that
\* is not well formed.  It throws exactly when some entry is not well formed.
C24_LoadAllOrNothing ==
    devices.done =>
      /\ devices.threw <=> \E i \in 1..Len(deviceJSON) : ~WellFormed(deviceJSON[i])
      /\ ~devices.threw =>
           /\ Len(devices.devices) = Len(deviceJSON)
           /\ \A i \in 1..Len(deviceJSON) : LoadedFrom(devices.devices[i], deviceJSON[i])
      /\ devices.threw =>
           /\ devices.devices = <<>>
           /\ \E i \in 1..Len(deviceJSON) :
                /\ ~WellFormed(deviceJSON[i])
                /\ \A j \in 1..(i - 1) : WellFormed(deviceJSON[j])
                /\ devices.message
                     = ParseErrorMessage(deviceJSON[i], DeviceError(deviceJSON[i]))

\* The load has thrown for a catalog whose first entry is well formed and
\* whose second entry is not.
C24_Witness ==
    /\ devices.done /\ devices.threw
    /\ Len(deviceJSON) = 2
    /\ WellFormed(deviceJSON[1])
    /\ Len(deviceJSON[2].targets) = 2
    /\ deviceJSON[2].targets[2].flashingMethod = "Bluetooth"
    /\ devices.message
         = "Issue encountered while parsing device \"DeviceA\" in the device configuration file devices.json: error parsing target \"A_via_WIFI\": \"Bluetooth\" is not a valid flashing method"

\* The load has returned a device for each of two entries.
AllDevicesLoaded ==
    /\ devices.done /\ ~devices.threw
    /\ Len(devices.devices) = 2
    /\ devices.devices[1].id = "DeviceA" /\ devices.devices[2].id = "DeviceB"

\* The chunks handed to the onBatch callback since the last reset.
BatchedSinceReset == SubSeq(batched, resetAt + 1, Len(batched))

\* C25: the log text displayed is the concatenation, in arrival order, of
\* the chunks delivered in a batch since the last reset, and logsRef holds
\* these chunks one by one; the chunks delivered in batches since the view
\* was mounted, followed by the chunks waiting in the batcher, are the chunks
\* received from the log subscription, in arrival order: none is dropped,
\* duplicated, split or reordered.
C25_DisplayedLogs ==
    /\ uiLogs = Join(BatchedSinceReset)
    /\ logsRef = BatchedSinceReset
    /\ batched \o eventsBatcher = logUpdates

\* Two chunks have been delivered since a reset that discarded a chunk, and
\* a chunk waits in the batcher.
C25_Witness ==
    /\ resetAt = 1
    /\ batched = <<"a", "bc", "a">>
    /\ logsRef = <<"bc", "a">>
    /\ uiLogs = "bca"
    /\ eventsBatcher = <<"bc">>

\* The log events of call c on the log topic, in the order of publication.
LogEventsOf(c, topic) == SelectSeq(topic, LAMBDA e : e.call = c)

\* The output chunks among the log events of call c.
ChunkEventsOf(c, topic) == SelectSeq(LogEventsOf(c, topic), LAMBDA e : e.data \in Chunks)

\* C26: when install, compile or flash hands a chunk to the output callback
\* of call c, exactly one event carrying this chunk unchanged is published
\* at the end of the log topic; no other step of the run publishes or
\* removes an output chunk, and the events published for the run stay as
\* they are, in the order of publication, until the run has returned.
C26_OutputPublished ==
    [][\A c \in Calls :
         /\ \A chunk \in Chunks :
              OutputCallback(c, chunk)
                => logs' = Append(logs, [call |-> c, data |-> chunk])
         /\ (Running(c) /\ ~(\E chunk \in Chunks : OutputCallback(c, chunk)))
              => ChunkEventsOf(c, logs') = ChunkEventsOf(c, logs)
         /\ Running(c) => IsPrefix(LogEventsOf(c, logs), LogEventsOf(c, logs'))]_vars

\* The install notice and three chunks, handed to the callbacks of install,
\* compile and flash, have been published in this order.
C26_Witness ==
    /\ pc[1] = "flash"
    /\ logs = << [call |-> 1, data |-> PlatformioNotice], [call |-> 1, data |-> "b"],
                 [call |-> 1, data |-> "a"], [call |-> 1, data |-> "b"] >>
    /\ Len(SelectSeq(ops, LAMBDA o : o.op \in {"install", "build", "flash"})) = 3

\* The places in the arrivals of the events about the device of a name.
EventsAbout(n) ==
    {i \in 1..Len(dnsArrivals) :
       dnsArrivals[i].type # "LIST" /\ dnsArrivals[i].data.name = n}

\* The most recent event about the device of a name.
LastEventAbout(n) ==
    dnsArrivals[CHOOSE i \in EventsAbout(n) : \A j \in EventsAbout(n) : j <= i]

\* The item the initial list holds for a name, if the list has arrived and
\* holds one.
InitialItem(n) ==
    LET lists == SelectSeq(dnsArrivals, LAMBDA a : a.type = "LIST")
    IN  IF lists = <<>> THEN NoDnsInformation ELSE lists[1].list[n]

\* What the arrivals make of a name: the data of its most recent event if
\* this is an add or an update, nothing if it is a removal, the item of the
\* initial list if there is no event about it.
LiveView(n) ==
    IF EventsAbout(n) = {} THEN InitialItem(n)
    ELSE IF LastEventAbout(n).type = "DEVICE_REMOVED" THEN NoDnsInformation
    ELSE LastEventAbout(n).data

\* C27: the device map reflects the events in arrival order, whenever the
\* initial list arrives: a name whose most recent event is an add or an
\* update maps to the data of this event, a name whose most recent event is
\* a removal is absent, and a name without events maps to its item of the
\* initial list, if the list has arrived and holds one.
C27_LiveDeviceMap ==
    \A n \in DnsNames : multicastDnsDevices[n] = LiveView(n)

\* The initial list has arrived after an event.
ListAfterEvent ==
    \E i \in 1..Len(dnsArrivals) :
      /\ dnsArrivals[i].type = "LIST"
      /\ \E j \in 1..(i - 1) : dnsArrivals[j].type # "LIST"

\* As long as the initial list has not arrived after an event, the device
\* map reflects the events in arrival order.
LiveDeviceMapWhenListFirst ==
    ~ListAfterEvent => C27_LiveDeviceMap

\* A build is in flight on instance i.
BuildInFlight(i) == \E k \in Callers : instanceCalls[i][k] = "running"

\* C28: the guards of two FirmwareService objects are independent.  A call
\* of buildFlashFirmware on an instance is rejected as busy exactly when a
\* build is in flight on this instance: a build in flight on another
\* instance does not reject it, and the release of the guard of another
\* instance does not let it in while a build is in flight on its own.  At
\* most one build is in flight on an instance.
C28_IndependentGuards ==
    [][\A i \in Instances :
         /\ \A k \in Callers :
              (instanceCalls[i][k] = "idle" /\ instanceCalls'[i][k] # "idle")
                => (instanceCalls'[i][k] = "busy" <=> BuildInFlight(i))
         /\ \A k1, k2 \in Callers :
              (instanceCalls'[i][k1] = "running" /\ instanceCalls'[i][k2] = "running")
                => k1 = k2]_vars

\* A build is in flight on the second instance, where another call has been
\* rejected, after a build of the first instance, started meanwhile, has
\* returned.
C28_Witness ==
    /\ instanceCalls[1][1] = "returned"
    /\ ~BuildInFlight(1)
    /\ instanceCalls[2][1] = "running"
    /\ instanceCalls[2][2] = "busy"

\* Call c has been accepted with a defines mode the switch does not handle.
UnsupportedMode(c) ==
    Accepted(c) /\ params[c].userDefinesMode \notin {"Manual", "UserInterface"}

\* C29: a call whose userDefinesMode is neither Manual nor UserInterface
\* never succeeds; neither build nor flash is invoked for it and
\* BUILDING_FIRMWARE is not published; once BUILDING_USER_DEFINES has been
\* published for it, it returns success = false, GenericError, with a
\* message naming the mode unless the publication itself has thrown; and
\* when it has returned the guard is free, if no other call runs.
C29_UnsupportedMode ==
    \A c \in Calls :
        UnsupportedMode(c) =>
          /\ ~Invoked(c, "build") /\ ~Invoked(c, "flash")
          /\ ~Published(c, "BUILDING_FIRMWARE")
          /\ Returned(c) =>
               /\ ~result[c].success
               /\ InFlight = {} => ~locked
               /\ Published(c, "BUILDING_USER_DEFINES") =>
                    /\ result[c].errorType = "GenericError"
                    /\ caught[c] \notin Exceptions =>
                         result[c]
                           = BuildFlashFirmwareResult(
                               FALSE,
                               "Error: Error: unsupported user defines mode: "
                                 \o params[c].userDefinesMode,
                               "GenericError", Undefined)

\* A call with an unsupported mode has returned GenericError after
\* BUILDING_USER_DEFINES was published, and the guard is free.
C29_Witness ==
    \E c \in Calls :
        /\ UnsupportedMode(c)
        /\ Returned(c)
        /\ StepsOf(c) = <<"VERIFYING_BUILD_SYSTEM", "DOWNLOADING_FIRMWARE",
                          "BUILDING_USER_DEFINES">>
        /\ result[c].errorType = "GenericError"
        /\ result[c].message = "Error: Error: unsupported user defines mode: Unsupported"
        /\ ~locked

\* Call c has been accepted with a source the dispatch does not handle.
UnsupportedSource(c) ==
    Accepted(c)
      /\ params[c].firmware.source \notin {"GitTag", "GitBranch", "GitCommit", "Local"}

\* C30: a call whose firmware source is not handled by the dispatch never
\* succeeds; it publishes at most VERIFYING_BUILD_SYSTEM then
\* DOWNLOADING_FIRMWARE, and invokes neither the compatibility check nor
\* build nor flash; once DOWNLOADING_FIRMWARE has been published for it, it
\* returns success = false, GenericError, with a message naming the source
\* unless the publication itself has thrown, these two events being all it
\* has published.
C30_UnsupportedSource ==
    \A c \in Calls :
        UnsupportedSource(c) =>
          /\ ~Invoked(c, "checkDefaultUserDefinesCompatibilityAtPath")
          /\ ~Invoked(c, "build") /\ ~Invoked(c, "flash")
          /\ ~Invoked(c, "checkoutTag")
          /\ IsPrefix(StepsOf(c), <<"VERIFYING_BUILD_SYSTEM", "DOWNLOADING_FIRMWARE">>)
          /\ Returned(c) =>
               /\ ~result[c].success
               /\ Published(c, "DOWNLOADING_FIRMWARE") =>
                    /\ StepsOf(c) = <<"VERIFYING_BUILD_SYSTEM", "DOWNLOADING_FIRMWARE">>
                    /\ result[c].errorType = "GenericError"
                    /\ caught[c] \notin Exceptions =>
                         result[c]
                           = BuildFlashFirmwareResult(
                               FALSE,
                               "Error: Error: unsupported firmware source: "
                                 \o params[c].firmware.source,
                               "GenericError", Undefined)

\* A call with the source GitPullRequest has returned GenericError after
\* DOWNLOADING_FIRMWARE was published.
C30_Witness ==
    \E c \in Calls :
        /\ UnsupportedSource(c)
        /\ Returned(c)
        /\ StepsOf(c) = <<"VERIFYING_BUILD_SYSTEM", "DOWNLOADING_FIRMWARE">>
        /\ result[c].errorType = "GenericError"
        /\ result[c].message = "Error: Error: unsupported firmware source: GitPullRequest"
        /\ OpNames(OpsOf(c)) = <<"checkPython", "checkCore", "findGitExecutable">>

\* The progress events received since the last reset.
ProgressSinceReset ==
    SubSeq(progressUpdates, progressResetAt + 1, Len(progressUpdates))

\* The build output and the progress are emptied.
OutputEmptied ==
    /\ progressNotificationsRef = <<>>
    /\ progressNotifications = <<>>
    /\ lastProgressNotification = NoProgressNotification
    /\ logsRef = <<>>
    /\ uiLogs = ""

\* The lists of errors that are not empty.
ErrorListsSet ==
    {i \in 1..3 : <<firmwareVersionErrors, deviceTargetErrors,
                     deviceOptionsValidationErrors>>[i] # <<>>}

\* C31: progressNotifications is the sequence of the progress events received
\* since the last reset, in the order of arrival and none dropped, and
\* lastProgressNotification is its last element, null exactly when it is
\* empty.  reset, which onBack and sendJob run first, empties both with the
\* logs and the three lists of errors: after onBack all are empty, after
\* sendJob the only list of errors set is the one sendJob has set itself.
C31_ProgressNotifications ==
    /\ [](/\ progressNotifications = ProgressSinceReset
          /\ progressNotificationsRef = progressNotifications
          /\ lastProgressNotification
               = IF progressNotifications = <<>> THEN NoProgressNotification
                 ELSE progressNotifications[Len(progressNotifications)]
          /\ lastProgressNotification = NoProgressNotification
               <=> progressNotifications = <<>>)
    /\ [][OnBack => (OutputEmptied' /\ ErrorListsSet' = {})]_vars
    /\ [][(\E type \in JobTypes : SendJob(type))
            => (OutputEmptied' /\ Cardinality(ErrorListsSet') <= 1)]_vars

\* A job was sent after one event was received, and another event was
\* received since.
C31_Witness ==
    /\ viewState = ViewStateCompiling
    /\ Len(progressUpdates) = 2
    /\ progressResetAt = 1
    /\ progressUpdates[1] # progressUpdates[2]
    /\ progressNotifications = <<progressUpdates[2]>>
    /\ lastProgressNotification = progressUpdates[2]

\* The build mutations the backend has not answered.
PendingMutations == {i \in 1..Len(mutations) : mutations[i].state = "pending"}

\* The build mutations among the requests sent.
BuildRequests == SelectSeq(requests, LAMBDA r : r.kind = "buildFlashFirmware")

\* C32: a ConfiguratorView never has two build mutations in flight.  Every
\* mutation sent is one build request; at most one is not answered; the build
\* is in progress exactly while one is not answered, and the view is then the
\* Compiling view, where neither Back nor Retry is offered.
C32_SingleMutationInFlight ==
    /\ Len(BuildRequests) = Len(mutations)
    /\ Cardinality(PendingMutations) <= 1
    /\ buildInProgress <=> PendingMutations # {}
    /\ buildInProgress => (viewState = ViewStateCompiling /\ ~BackAndRetryOffered)
    /\ \A i \in 1..Len(mutations) :
         mutations[i].state = "pending" => i = Len(mutations)

\* A second mutation is in flight, sent after the first was answered.
C32_Witness ==
    /\ Len(mutations) = 2
    /\ mutations[1].state = "done"
    /\ mutations[2].state = "pending"
    /\ buildInProgress

\* C33: Retry resubmits a job of the type of the job that has finished: a
\* mutation sent from the Compiling view has the type currentJobType had.
C33_RetrySameJobType ==
    \A i \in 1..Len(mutations) :
      mutations[i].view = ViewStateCompiling => mutations[i].type = mutations[i].job

\* The flashing method of the target selected, undefined when the targets
\* listed have none of that name.
FlashingMethodOfTarget == FindTarget(deviceTargets, deviceTarget).flashingMethod

\* The device the claim names for the build request.
DeviceOfTransport ==
    IF FlashingMethodOfTarget \in {"UART", "BetaflightPassthrough"} /\ serialDevice # Null
    THEN serialDevice
    ELSE IF FlashingMethodOfTarget = "WIFI" /\ wifiDevice # Null
    THEN wifiDevice
    ELSE Undefined

\* C34: serialPortRequired and wifiDeviceRequired are never both true; each
\* tells the flashing method of the target selected; and the serialDevice of
\* a build request sent is the serial device selected when that method is
\* UART or BetaflightPassthrough, the Wi-Fi device selected when it is WIFI,
\* and undefined otherwise, so never a device of the other transport.
C34_DeviceOfTransport ==
    /\ [](/\ ~(serialPortRequired /\ wifiDeviceRequired)
          /\ serialPortRequired
               <=> FlashingMethodOfTarget \in {"UART", "BetaflightPassthrough"}
          /\ wifiDeviceRequired <=> FlashingMethodOfTarget = "WIFI")
    /\ [][Len(BuildRequests') > Len(BuildRequests)
            => /\ requests'[Len(requests')].serialDevice = DeviceOfTransport
               /\ FlashingMethodOfTarget = "WIFI"
                    => requests'[Len(requests')].serialDevice # serialDevice
               /\ FlashingMethodOfTarget \in {"UART", "BetaflightPassthrough"}
                    => requests'[Len(requests')].serialDevice # wifiDevice]_vars

\* A build request for a WIFI target was sent with the Wi-Fi device selected,
\* while a serial device selected for an earlier target is still selected.
C34_Witness ==
    /\ Len(BuildRequests) = 1
    /\ BuildRequests[1].target = "T_WIFI"
    /\ BuildRequests[1].serialDevice = "10.0.0.1"
    /\ serialDevice = "/dev/ttyUSB0"
    /\ wifiDevice = "10.0.0.1"

\* C35: every device of multicastDnsNewDevices has an entry in the map of
\* the devices, so Select on a notification finds the entry of its device.
C35_NewDevicesInMap ==
    \A i \in 1..Len(multicastDnsNewDevices) :
      multicastDnsDevices[multicastDnsNewDevices[i].name] # NoDnsInformation

====
